---- MODULE Spec2Model ----
(***************************************************************************)
(* Model of src/src/geoaudit.js: the static rubric analyzer analyzeHtml    *)
(* and its inner addCheck, applied to parsed HTML documents.               *)
(*                                                                         *)
(* Text is a sequence of one-character strings, so that trim, toLowerCase, *)
(* includes and the regular expressions are computed, not assumed.         *)
(* A document is the DOM that cheerio's load() hands to the selectors: the *)
(* <html> lang attribute, the <meta> elements, the <title> text, the <h1>  *)
(* elements, the canonical <link>, the JSON-LD <script> blocks, the <img>  *)
(* elements and the text of <body>.                                        *)
(***************************************************************************)
EXTENDS Integers, Sequences, FiniteSets, TLC

VARIABLES html, pc, prelim, advanced, hints, geo, analyzeCalls,
          argv, env, mpc, exitCode, logs, crawlCalls, aiCalls, crawlResponse,
          htmlPieces, enrichment, ai, topIssues, files

analysisVars == <<html, pc, prelim, advanced, hints, geo, analyzeCalls>>

mainVars ==
  <<argv, env, mpc, exitCode, logs, crawlCalls, aiCalls, crawlResponse,
    htmlPieces, enrichment, ai, topIssues, files>>

vars == <<analysisVars, mainVars>>

\* ---------------------------------------------------------------- bounds
MaxImgs == 5
MaxBlocks == 2
MaxH1 == 3
MaxPages == 2

\* ------------------------------------------------------- JavaScript values
Null == "<null>"
Undefined == [undefined |-> TRUE]

\* An attribute read with .attr(): absent (undefined) or a string.
NoAttr == [has |-> FALSE, val |-> <<>>]
Attr(s) == [has |-> TRUE, val |-> s]

\* attr || ''
AttrOrEmpty(a) == IF a.has THEN a.val ELSE <<>>

\* !!attr : undefined and '' are falsy
Truthy(a) == a.has /\ a.val # <<>>

Rep(c, n) == [i \in 1..n |-> c]

Spaces == {" ", "\t", "\n"}

IsSpace(c) == c \in Spaces

Digits == {"0", "1", "2", "3", "4", "5", "6", "7", "8", "9"}

IsDigit(c) == c \in Digits

RECURSIVE TrimStart(_)
TrimStart(s) ==
  IF s = <<>> THEN s
  ELSE IF IsSpace(Head(s)) THEN TrimStart(Tail(s)) ELSE s

RECURSIVE TrimEnd(_)
TrimEnd(s) ==
  IF s = <<>> THEN s
  ELSE IF IsSpace(s[Len(s)]) THEN TrimEnd(SubSeq(s, 1, Len(s) - 1)) ELSE s

\* String.prototype.trim
Trim(s) == TrimEnd(TrimStart(s))

LowerChar(c) ==
  CASE c = "A" -> "a" [] c = "B" -> "b" [] c = "C" -> "c" [] c = "D" -> "d"
    [] c = "E" -> "e" [] c = "F" -> "f" [] c = "G" -> "g" [] c = "H" -> "h"
    [] c = "I" -> "i" [] c = "J" -> "j" [] c = "K" -> "k" [] c = "L" -> "l"
    [] c = "M" -> "m" [] c = "N" -> "n" [] c = "O" -> "o" [] c = "P" -> "p"
    [] c = "Q" -> "q" [] c = "R" -> "r" [] c = "S" -> "s" [] c = "T" -> "t"
    [] c = "U" -> "u" [] c = "V" -> "v" [] c = "W" -> "w" [] c = "X" -> "x"
    [] c = "Y" -> "y" [] c = "Z" -> "z" [] OTHER -> c

\* String.prototype.toLowerCase
ToLowerCase(s) == [i \in 1..Len(s) |-> LowerChar(s[i])]

\* String.prototype.includes
Includes(s, sub) ==
  \E i \in 1..(Len(s) - Len(sub) + 1) : SubSeq(s, i, i + Len(sub) - 1) = sub

\* String.prototype.startsWith
StartsWith(s, pre) == Len(s) >= Len(pre) /\ SubSeq(s, 1, Len(pre)) = pre

\* Math.round of the non-negative rational num/den (halves round up)
Round(num, den) == (2 * num + den) \div (2 * den)

\* ------------------------------------------------------------ JSON values
\* What JSON.parse returns, and what property reads on it return.
JUndefined == [kind |-> "undefined"]
JNull == [kind |-> "null"]
JStr(s) == [kind |-> "string", str |-> s]
JNum(n) == [kind |-> "number", num |-> n]
JObj(props) == [kind |-> "object", props |-> props]
JArr(items) == [kind |-> "array", items |-> items]

\* truthiness of a JavaScript value
JsTruthy(v) ==
  CASE v.kind = "undefined" -> FALSE
    [] v.kind = "null" -> FALSE
    [] v.kind = "string" -> v.str # <<>>
    [] v.kind = "number" -> v.num # 0
    [] OTHER -> TRUE

\* typeof v === 'object'
TypeofObject(v) == v.kind \in {"null", "object", "array"}

\* n[key] on a non-null value: own property of an object, undefined otherwise
Get(n, key) ==
  IF n.kind = "object" /\ key \in DOMAIN n.props THEN n.props[key] ELSE JUndefined

\* a || b
JsOr(a, b) == IF JsTruthy(a) THEN a ELSE b

\* ------------------------------------------------------------ text constants
sViewport == <<"v", "i", "e", "w", "p", "o", "r", "t">>
sDescription == <<"d", "e", "s", "c", "r", "i", "p", "t", "i", "o", "n">>
sRobots == <<"r", "o", "b", "o", "t", "s">>
sNoindex == <<"n", "o", "i", "n", "d", "e", "x">>
sGeo == <<"g", "e", "o">>
sOgLocale == <<"o", "g", ":", "l", "o", "c", "a", "l", "e">>
sOgSiteName == <<"o", "g", ":", "s", "i", "t", "e", "_", "n", "a", "m", "e">>
sLocalbusiness == <<"l", "o", "c", "a", "l", "b", "u", "s", "i", "n", "e", "s", "s">>
sOrganization == <<"o", "r", "g", "a", "n", "i", "z", "a", "t", "i", "o", "n">>
sPlace == <<"p", "l", "a", "c", "e">>
sInvalidJson == <<"i", "n", "v", "a", "l", "i", "d", "-", "j", "s", "o", "n">>

\* ---------------------------------------------------------------- WEIGHTS
WEIGHTS ==
  [lang |-> 5, charset |-> 3, viewport |-> 4, title |-> 10, description |-> 10,
   h1 |-> 6, canonical |-> 8, robots |-> 8, json_ld |-> 12, local_schema |-> 12,
   images_alt |-> 6, geo |-> 16]

\* The order in which analyzeHtml calls addCheck.
CheckOrder ==
  <<"lang", "charset", "viewport", "title", "description", "h1", "canonical",
    "robots", "json_ld", "local_schema", "images_alt", "geo">>

prioMap == [high |-> 3, medium |-> 2, low |-> 1]

\* --------------------------------------------------------------- selectors
\* .attr(name) of a selection: the attribute of its first element
FirstAttr(sel, name) == IF sel = <<>> THEN NoAttr ELSE sel[1][name]

\* $('meta[name="..."]')
MetaNamed(d, n) == SelectSeq(d.metas, LAMBDA m : m.name.has /\ m.name.val = n)

\* $('meta[charset]')
MetaWithCharset(d) == SelectSeq(d.metas, LAMBDA m : m.charset.has)

\* ------------------------------------------------- regular expressions
\* last index of the maximal run of characters of the class cls that starts at
\* index i (i - 1 when s[i] is not in the class)
RunEnd(s, i, cls) ==
  IF i > Len(s) THEN i - 1
  ELSE (CHOOSE j \in i..(Len(s) + 1) :
          /\ j = Len(s) + 1 \/ s[j] \notin cls
          /\ \A k \in i..(j - 1) : s[k] \in cls) - 1

\* [\d\-\s]
PhoneSep == Digits \cup {"-"} \cup Spaces

\* /(\+?\d[\d\-\s]{6,}\d)/ anchored at index i: index of the last character
\* of the (greedy) match, 0 when there is none
TryPhone(s, i) ==
  LET j == IF i <= Len(s) /\ s[i] = "+" THEN i + 1 ELSE i
  IN IF ~(j <= Len(s) /\ IsDigit(s[j])) THEN 0
     ELSE LET q == RunEnd(s, j + 1, PhoneSep)
              ends == {e \in (j + 7)..q : IsDigit(s[e])}
          IN IF ends = {} THEN 0 ELSE CHOOSE e \in ends : \A f \in ends : f <= e

\* [...bodyText.matchAll(/(\+?\d[\d\-\s]{6,}\d)/g)].map(m => m[0])
RECURSIVE PhoneMatchesFrom(_, _)
PhoneMatchesFrom(s, i) ==
  IF \A j \in i..Len(s) : TryPhone(s, j) = 0 THEN <<>>
  ELSE LET j == CHOOSE j \in i..Len(s) :
                  TryPhone(s, j) > 0 /\ \A k \in i..(j - 1) : TryPhone(s, k) = 0
           e == TryPhone(s, j)
       IN <<SubSeq(s, j, e)>> \o PhoneMatchesFrom(s, e + 1)

PhoneMatches(s) == PhoneMatchesFrom(s, 1)

\* -?\d+\.\d+ anchored at index i: index of its last character, 0 when none
TryNum(s, i) ==
  LET j == IF i <= Len(s) /\ s[i] = "-" THEN i + 1 ELSE i
      a == RunEnd(s, j, Digits)
  IN IF a < j \/ a + 1 > Len(s) \/ s[a + 1] # "." THEN 0
     ELSE LET b == RunEnd(s, a + 2, Digits)
          IN IF b < a + 2 THEN 0 ELSE b

\* /(-?\d+\.\d+)\s*,\s*(-?\d+\.\d+)/ anchored at index i
TryCoord(s, i) ==
  LET b1 == TryNum(s, i)
      k == RunEnd(s, b1 + 1, Spaces) + 1
      k2 == RunEnd(s, k + 1, Spaces) + 1
      b2 == TryNum(s, k2)
  IN IF b1 = 0 \/ k > Len(s) \/ s[k] # "," \/ b2 = 0
     THEN [end |-> 0, text |-> <<>>]
     ELSE [end |-> b2, text |-> SubSeq(s, i, b1) \o <<",">> \o SubSeq(s, k2, b2)]

\* [...bodyText.matchAll(/(-?\d+\.\d+)\s*,\s*(-?\d+\.\d+)/g)].map(m => `${m[1]},${m[2]}`)
RECURSIVE CoordMatchesFrom(_, _)
CoordMatchesFrom(s, i) ==
  IF \A j \in i..Len(s) : TryCoord(s, j).end = 0 THEN <<>>
  ELSE LET j == CHOOSE j \in i..Len(s) :
                  TryCoord(s, j).end > 0 /\ \A k \in i..(j - 1) : TryCoord(s, k).end = 0
           m == TryCoord(s, j)
       IN <<m.text>> \o CoordMatchesFrom(s, m.end + 1)

CoordMatches(s) == CoordMatchesFrom(s, 1)

\* arr.slice(0, n)
Slice0(arr, n) == SubSeq(arr, 1, IF Len(arr) < n THEN Len(arr) ELSE n)

\* ---------------------------------------------------------------- addCheck
\* const report = { checks: {}, total_awarded: 0, total_possible: 0, suggestions: [] }
EmptyReport ==
  [checks |-> <<>>, total_awarded |-> 0, total_possible |-> 0, suggestions |-> <<>>]

\* obj[key] = value
Put(obj, key, value) ==
  [k \in (DOMAIN obj) \cup {key} |-> IF k = key THEN value ELSE obj[k]]

\* advice is truthy: neither null nor ''
AdviceGiven(advice) == advice # Null /\ advice # ""

\* addCheck adding the weight to total_possible only when the check passes
addCheck_PossibleOnPass(report, key, ok, pointsIfOk, detail, advice, priority) ==
  LET max == IF key \in DOMAIN WEIGHTS THEN WEIGHTS[key] ELSE 0
      awarded == IF ok THEN pointsIfOk ELSE 0
  IN [checks |-> Put(report.checks, key,
                     [ok |-> ok, points |-> awarded, max_points |-> max,
                      detail |-> detail, advice |-> advice, priority |-> priority]),
      total_awarded |-> report.total_awarded + awarded,
      total_possible |-> report.total_possible + (IF ok THEN max ELSE 0),
      suggestions |->
        IF ~ok /\ AdviceGiven(advice)
        THEN Append(report.suggestions,
                    [key |-> key, priority |-> priority, advice |-> advice,
                     detail |-> detail])
        ELSE report.suggestions]

\* addCheck pushing the suggestion whenever there is an advice, passed or not
addCheck_SuggestsAlways(report, key, ok, pointsIfOk, detail, advice, priority) ==
  LET max == IF key \in DOMAIN WEIGHTS THEN WEIGHTS[key] ELSE 0
      awarded == IF ok THEN pointsIfOk ELSE 0
  IN [checks |-> Put(report.checks, key,
                     [ok |-> ok, points |-> awarded, max_points |-> max,
                      detail |-> detail, advice |-> advice, priority |-> priority]),
      total_awarded |-> report.total_awarded + awarded,
      total_possible |-> report.total_possible + max,
      suggestions |->
        IF AdviceGiven(advice)
        THEN Append(report.suggestions,
                    [key |-> key, priority |-> priority, advice |-> advice,
                     detail |-> detail])
        ELSE report.suggestions]

addCheck(report, key, ok, pointsIfOk, detail, advice, priority) ==
  LET max == IF key \in DOMAIN WEIGHTS THEN WEIGHTS[key] ELSE 0
      awarded == IF ok THEN pointsIfOk ELSE 0
  IN [checks |-> Put(report.checks, key,
                     [ok |-> ok, points |-> awarded, max_points |-> max,
                      detail |-> detail, advice |-> advice, priority |-> priority]),
      total_awarded |-> report.total_awarded + awarded,
      total_possible |-> report.total_possible + max,
      suggestions |->
        IF ~ok /\ AdviceGiven(advice)
        THEN Append(report.suggestions,
                    [key |-> key, priority |-> priority, advice |-> advice,
                     detail |-> detail])
        ELSE report.suggestions]

\* value || null
OrNull(a) == IF Truthy(a) THEN a.val ELSE Null

\* ------------------------------------------------------ the twelve checks
CheckLang(r, d) ==
  addCheck(r, "lang", Truthy(d.lang), WEIGHTS.lang, [lang |-> OrNull(d.lang)],
           "Add <html lang=\"...\"> (BCP47)", "low")

CheckCharset(r, d) ==
  LET charset == FirstAttr(MetaWithCharset(d), "charset")
  IN addCheck(r, "charset", Truthy(charset), WEIGHTS.charset,
              [charset |-> OrNull(charset)], "Add <meta charset=\"utf-8\">", "low")

CheckViewport(r, d) ==
  addCheck(r, "viewport", Truthy(FirstAttr(MetaNamed(d, sViewport), "content")),
           WEIGHTS.viewport, Null, "Add viewport meta", "low")

CheckTitle(r, d) ==
  LET title == Trim(d.title)
  IN addCheck(r, "title", Len(title) >= 10, WEIGHTS.title,
              [title |-> title, length |-> Len(title)],
              "Keep title 30-60 chars", "high")

\* the 50-160 band with both ends excluded
DescriptionPoints_OpenBand(length) ==
  IF length > 50 /\ length < 160 THEN WEIGHTS.description
  ELSE Round(WEIGHTS.description, 2)

\* (desc.length >= 50 && desc.length <= 160) ? WEIGHTS.description
\*                                           : Math.round(WEIGHTS.description / 2)
DescriptionPoints(length) ==
  IF length >= 50 /\ length <= 160 THEN WEIGHTS.description
  ELSE Round(WEIGHTS.description, 2)

DescriptionOk(length) == length >= 20

CheckDescription(r, d) ==
  LET desc == Trim(AttrOrEmpty(FirstAttr(MetaNamed(d, sDescription), "content")))
  IN addCheck(r, "description", DescriptionOk(Len(desc)), DescriptionPoints(Len(desc)),
              [description |-> desc, length |-> Len(desc)],
              "Meta description 50-160 chars", "high")

\* full weight for any number of h1 elements
H1Points_AlwaysFull(h1Count) == WEIGHTS.h1

\* h1Count === 1 ? WEIGHTS.h1 : Math.round(WEIGHTS.h1 * 0.5)
H1Points(h1Count) == IF h1Count = 1 THEN WEIGHTS.h1 ELSE Round(WEIGHTS.h1 * 5, 10)

CheckH1(r, d) ==
  addCheck(r, "h1", d.h1Count >= 1, H1Points(d.h1Count), [h1_count |-> d.h1Count],
           "Exactly one H1 preferred", "medium")

CheckCanonical(r, d) ==
  addCheck(r, "canonical", Truthy(d.canonical), WEIGHTS.canonical,
           [href |-> OrNull(d.canonical)], "Add canonical link", "high")

\* a missing robots directive taken as failing
RobotsOk_AbsentFails(robots) == robots # <<>> /\ ~Includes(robots, sNoindex)

RobotsOk(robots) == ~Includes(robots, sNoindex)

CheckRobots(r, d) ==
  LET robots == ToLowerCase(AttrOrEmpty(FirstAttr(MetaNamed(d, sRobots), "content")))
  IN addCheck(r, "robots", RobotsOk(robots), WEIGHTS.robots, [robots |-> robots],
              "Remove noindex if you want indexing", "high")

\* ------------------------------------------------------------- JSON-LD
\* A <script type="application/ld+json"> element is given by what reading
\* and parsing its text does: "blank" (empty or whitespace only, skipped),
\* "invalid" (JSON.parse throws) or "json" (JSON.parse returns value).
BlankScript == [raw |-> "blank", value |-> JUndefined]
InvalidScript == [raw |-> "invalid", value |-> JUndefined]
JsonScript(v) == [raw |-> "json", value |-> v]

\* a block that fails to parse dropped instead of recorded
ParseBlock_DropsInvalid(el) ==
  CASE el.raw = "blank" -> <<>>
    [] el.raw = "invalid" -> <<>>
    [] OTHER -> <<el.value>>

\* try { if (raw && raw.trim()) jsonLdNodes.push(JSON.parse(raw)); }
\* catch (e) { jsonLdNodes.push('invalid-json'); }
ParseBlock(el) ==
  CASE el.raw = "blank" -> <<>>
    [] el.raw = "invalid" -> <<JStr(sInvalidJson)>>
    [] OTHER -> <<el.value>>

RECURSIVE CollectJsonLd(_)
CollectJsonLd(scripts) ==
  IF scripts = <<>> THEN <<>>
  ELSE ParseBlock(Head(scripts)) \o CollectJsonLd(Tail(scripts))

jsonLdNodes(d) == CollectJsonLd(d.scripts)

\* the pattern without its i flag
LocalTypeRe_CaseSensitive(t) ==
  Includes(t, sLocalbusiness) \/ Includes(t, sOrganization) \/ Includes(t, sPlace)

\* /localbusiness|organization|place/i.test(t)
LocalTypeRe(t) ==
  LET l == ToLowerCase(t)
  IN Includes(l, sLocalbusiness) \/ Includes(l, sOrganization) \/ Includes(l, sPlace)

\* the body of   for (const n of arr)   for a non-null n
NodeIsLocal(n) ==
  LET t == JsOr(JsOr(Get(n, "@type"), Get(n, "type")), JStr(<<>>))
  IN \/ t.kind = "string" /\ LocalTypeRe(t.str)
     \/ JsTruthy(JsOr(Get(n, "address"), Get(n, "telephone")))

\* reading n['@type'] of null throws a TypeError
ReadThrows(n) == n.kind = "null"

\* for (const n of arr) { ... } from element i on, with hasLocal = acc so far
RECURSIVE ScanItems(_, _, _)
ScanItems(arr, i, acc) ==
  IF i > Len(arr) THEN [threw |-> FALSE, hasLocal |-> acc]
  ELSE IF ReadThrows(arr[i]) THEN [threw |-> TRUE, hasLocal |-> acc]
  ELSE ScanItems(arr, i + 1, acc \/ NodeIsLocal(arr[i]))

\* for (const node of jsonLdNodes) { if (node && typeof node === 'object') ... }
RECURSIVE ScanNodes(_, _, _)
ScanNodes(nodes, i, acc) ==
  IF i > Len(nodes) THEN [threw |-> FALSE, hasLocal |-> acc]
  ELSE LET node == nodes[i]
       IN IF JsTruthy(node) /\ TypeofObject(node)
          THEN LET arr == IF node.kind = "array" THEN node.items ELSE <<node>>
                   res == ScanItems(arr, 1, acc)
               IN IF res.threw THEN res ELSE ScanNodes(nodes, i + 1, res.hasLocal)
          ELSE ScanNodes(nodes, i + 1, acc)

LocalScan(d) == ScanNodes(jsonLdNodes(d), 1, FALSE)

\* a document without any block passes
CheckJsonLd_NoBlocksPass(r, d) ==
  addCheck(r, "json_ld", Len(jsonLdNodes(d)) >= 0, WEIGHTS.json_ld,
           [count |-> Len(jsonLdNodes(d))], "Add JSON-LD structured data", "medium")

CheckJsonLd(r, d) ==
  addCheck(r, "json_ld", Len(jsonLdNodes(d)) > 0, WEIGHTS.json_ld,
           [count |-> Len(jsonLdNodes(d))], "Add JSON-LD structured data", "medium")

\* a local_schema check that passes whatever the blocks are
CheckLocalSchema_AlwaysPasses(r, d) ==
  addCheck(r, "local_schema", TRUE, WEIGHTS.local_schema, Null,
           "Add LocalBusiness schema with address/telephone", "high")

CheckLocalSchema(r, d) ==
  addCheck(r, "local_schema", LocalScan(d).hasLocal, WEIGHTS.local_schema, Null,
           "Add LocalBusiness schema with address/telephone", "high")

\* ---------------------------------------------------------------- images
\* imgs.filter(i => ($(i).attr('alt') || '').trim().length > 0).length
WithAlt(imgs) == Len(SelectSeq(imgs, LAMBDA alt : Len(Trim(AttrOrEmpty(alt))) > 0))

\* ratio >= 0.8, with ratio = withAlt / total
RatioOk(withAlt, total) == withAlt * 10 >= total * 8

\* Math.round(WEIGHTS.images_alt * (ratio >= 0.8 ? 1 : ratio))
ImagesAltPoints(withAlt, total) ==
  IF RatioOk(withAlt, total) THEN WEIGHTS.images_alt
  ELSE Round(WEIGHTS.images_alt * withAlt, total)

\* no exemption for zero images: the ratio 0/0 is NaN and NaN >= 0.8 is false
CheckImagesAlt_NoExemption(r, d) ==
  LET withAlt == WithAlt(d.imgs)
      total == Len(d.imgs)
  IN addCheck(r, "images_alt", total > 0 /\ RatioOk(withAlt, total),
              IF total = 0 THEN 0 ELSE ImagesAltPoints(withAlt, total),
              [total |-> total, withAlt |-> withAlt,
               ratio |-> IF total = 0 THEN 0 ELSE Round(100 * withAlt, total)],
              "Add alt attributes for images (aim >=80%)", "medium")

\* the detail's ratio, Number(ratio.toFixed(2)), is kept in hundredths
CheckImagesAlt(r, d) ==
  IF Len(d.imgs) = 0
  THEN addCheck(r, "images_alt", TRUE, WEIGHTS.images_alt,
                [total |-> 0, withAlt |-> 0, ratio |-> 100], Null, "low")
  ELSE LET withAlt == WithAlt(d.imgs)
           total == Len(d.imgs)
       IN addCheck(r, "images_alt", RatioOk(withAlt, total),
                   ImagesAltPoints(withAlt, total),
                   [total |-> total, withAlt |-> withAlt,
                    ratio |-> Round(100 * withAlt, total)],
                   "Add alt attributes for images (aim >=80%)", "medium")

\* ------------------------------------------------------------------- geo
\* (($(el).attr('name') || '') + '').toLowerCase()
MetaName(el) == ToLowerCase(AttrOrEmpty(el.name))

IsGeoName(name) == StartsWith(name, sGeo) \/ name = sOgLocale \/ name = sOgSiteName

\* geoMeta[name] = $(el).attr('content') || null, for each <meta> in order
geoMeta(d) ==
  LET hits == SelectSeq(d.metas, LAMBDA el : IsGeoName(MetaName(el)))
      names == {MetaName(hits[i]) : i \in 1..Len(hits)}
      last(n) == CHOOSE i \in 1..Len(hits) :
                   /\ MetaName(hits[i]) = n
                   /\ \A j \in 1..Len(hits) : MetaName(hits[j]) = n => j <= i
  IN [n \in names |-> OrNull(hits[last(n)].content)]

hasGeo(d) ==
  \/ Cardinality(DOMAIN geoMeta(d)) > 0
  \/ Len(PhoneMatches(d.bodyText)) > 0
  \/ Len(CoordMatches(d.bodyText)) > 0

CheckGeo(r, d) ==
  addCheck(r, "geo", hasGeo(d), WEIGHTS.geo,
           [geoMeta |-> geoMeta(d), phones |-> Slice0(PhoneMatches(d.bodyText), 3),
            coords |-> Slice0(CoordMatches(d.bodyText), 3)],
           "Add geo meta / phone / coords for local signals", "medium")

\* ------------------------------------------------------------ analyzeHtml
\* an unstable sort: an element goes before the elements of its own priority
InsertSorted_BeforeTies(sorted, x) ==
  LET before == {i \in 1..Len(sorted) :
                   prioMap[sorted[i].priority] > prioMap[x.priority]}
      k == Cardinality(before)
  IN SubSeq(sorted, 1, k) \o <<x>> \o SubSeq(sorted, k + 1, Len(sorted))

\* Array.prototype.sort is stable: an element goes after every element the
\* comparator does not place behind it.
InsertSorted(sorted, x) ==
  LET before == {i \in 1..Len(sorted) :
                   prioMap[sorted[i].priority] >= prioMap[x.priority]}
      k == Cardinality(before)
  IN SubSeq(sorted, 1, k) \o <<x>> \o SubSeq(sorted, k + 1, Len(sorted))

\* report.suggestions.sort((a, b) => prioMap[b.priority] - prioMap[a.priority])
RECURSIVE SortSuggestions(_)
SortSuggestions(s) ==
  IF s = <<>> THEN <<>>
  ELSE InsertSorted(SortSuggestions(SubSeq(s, 1, Len(s) - 1)), s[Len(s)])

\* Math.round((total_awarded / totalPossible) * 10000) / 100, in hundredths
Score(awarded, possible) == Round(awarded * 10000, possible)

\* the report once every check has run
Summarize(report) ==
  LET totalPossible == IF report.total_possible # 0 THEN report.total_possible ELSE 1
  IN [checks |-> report.checks,
      total_awarded |-> report.total_awarded,
      total_possible |-> report.total_possible,
      summary |-> [score |-> Score(report.total_awarded, totalPossible),
                   total_awarded |-> report.total_awarded,
                   total_possible |-> totalPossible],
      suggestions |-> SortSuggestions(report.suggestions)]

\* analyzeHtml throws iff the local_schema loop reads a property of null
analyzeHtmlThrows(d) == LocalScan(d).threw

\* the report analyzeHtml returns (when it does not throw)
analyzeHtml(d) ==
  LET r1 == CheckLang(EmptyReport, d)
      r2 == CheckCharset(r1, d)
      r3 == CheckViewport(r2, d)
      r4 == CheckTitle(r3, d)
      r5 == CheckDescription(r4, d)
      r6 == CheckH1(r5, d)
      r7 == CheckCanonical(r6, d)
      r8 == CheckRobots(r7, d)
      r9 == CheckJsonLd(r8, d)
      r10 == CheckLocalSchema(r9, d)
      r11 == CheckImagesAlt(r10, d)
      r12 == CheckGeo(r11, d)
  IN Summarize(r12)

\* ------------------------------------------------------------ text metrics
UpperLetters ==
  {"A", "B", "C", "D", "E", "F", "G", "H", "I", "J", "K", "L", "M",
   "N", "O", "P", "Q", "R", "S", "T", "U", "V", "W", "X", "Y", "Z"}

LowerLetters == {LowerChar(c) : c \in UpperLetters}

\* \w
WordChars == UpperLetters \cup LowerLetters \cup Digits \cup {"_"}

\* last index of the maximal run of characters outside cls that starts at i
RunEndNot(s, i, cls) ==
  IF i > Len(s) THEN i - 1
  ELSE (CHOOSE j \in i..(Len(s) + 1) :
          /\ j = Len(s) + 1 \/ s[j] \in cls
          /\ \A k \in i..(j - 1) : s[k] \notin cls) - 1

\* s.split(/[cls]+/).filter(Boolean), from index i on: the maximal non-empty
\* runs of characters outside cls
RECURSIVE TokensFrom(_, _, _)
TokensFrom(s, i, cls) ==
  LET j == RunEnd(s, i, cls) + 1
      e == RunEndNot(s, j, cls)
  IN IF j > Len(s) THEN <<>>
     ELSE <<SubSeq(s, j, e)>> \o TokensFrom(s, e + 1, cls)

Tokens(s, cls) == TokensFrom(s, 1, cls)

\* s.replace(/\s+/g, ' ') from index i on
RECURSIVE CollapseFrom(_, _)
CollapseFrom(s, i) ==
  IF i > Len(s) THEN <<>>
  ELSE LET j == RunEnd(s, i, Spaces) + 1
           e == RunEndNot(s, j, Spaces)
       IN (IF j > i THEN <<" ">> ELSE <<>>) \o SubSeq(s, j, e) \o CollapseFrom(s, e + 1)

\* ($('body').text() || '').replace(/\s+/g, ' ').trim()
NormalizedBody(d) == Trim(CollapseFrom(d.bodyText, 1))

Vowels == {"a", "e", "i", "o", "u", "y"}

\* function countSyllables(word)
countSyllables(word) ==
  LET w == SelectSeq(ToLowerCase(word), LAMBDA c : c \in LowerLetters)
      groups == Cardinality({i \in 1..Len(w) :
                               w[i] \in Vowels /\ (i = 1 \/ w[i - 1] \notin Vowels)})
      syll == IF w # <<>> /\ w[Len(w)] = "e"
              THEN (IF groups - 1 > 1 THEN groups - 1 ELSE 1)
              ELSE groups
  IN IF w = <<>> THEN 0 ELSE IF syll = 0 THEN 1 ELSE syll

\* wordsArr.reduce((s, w) => s + countSyllables(w), 0)
RECURSIVE SumSyllables(_)
SumSyllables(wordsArr) ==
  IF wordsArr = <<>> THEN 0
  ELSE countSyllables(Head(wordsArr)) + SumSyllables(Tail(wordsArr))

\* x || 1 for a count
OrOne(n) == IF n = 0 THEN 1 ELSE n

\* a JavaScript number that is an integer, and -Infinity
JNegInfinity == [kind |-> "-Infinity"]

\* Math.round(206.835 - 1.015 * (words / sentences) - 84.6 * (syllables / words))
\* for sentences >= 1 and syllables >= 1: with words = 0 the quotient
\* syllables / words is Infinity and the result -Infinity
Flesch(words, sentences, syllables) ==
  IF words = 0 THEN JNegInfinity
  ELSE JNum(Round(206835 * sentences * words - 1015 * words * words
                    - 84600 * syllables * sentences,
                  1000 * sentences * words))

\* [A-Z][a-z]{2,} anchored at index i: index of its last character, 0 if none
TryCapWord(s, i) ==
  IF ~(i <= Len(s) /\ s[i] \in UpperLetters) THEN 0
  ELSE LET e == RunEnd(s, i + 1, LowerLetters)
       IN IF e >= i + 2 THEN e ELSE 0

\* \b after the word character at index e
BoundaryAfter(s, e) == e = Len(s) \/ s[e + 1] \notin WordChars

\* (?:\s[A-Z][a-z]{2,})*\b after a word that ends at index e: the index of
\* the last character of the longest continuation that ends on a word
\* boundary, 0 if there is none
RECURSIVE CapChainEnd(_, _)
CapChainEnd(s, e) ==
  LET n == IF e + 1 <= Len(s) /\ IsSpace(s[e + 1]) THEN TryCapWord(s, e + 2) ELSE 0
      r == IF n > 0 THEN CapChainEnd(s, n) ELSE 0
  IN IF r > 0 THEN r ELSE IF BoundaryAfter(s, e) THEN e ELSE 0

\* /\b([A-Z][a-z]{2,}(?:\s[A-Z][a-z]{2,})*)\b/ anchored at index i
TryCap(s, i) ==
  LET e == TryCapWord(s, i)
  IN IF e = 0 \/ ~(i = 1 \/ s[i - 1] \notin WordChars) THEN 0
     ELSE CapChainEnd(s, e)

\* [...bodyText.matchAll(/\b([A-Z][a-z]{2,}(?:\s[A-Z][a-z]{2,})*)\b/g)].map(m => m[0])
RECURSIVE CapMatchesFrom(_, _)
CapMatchesFrom(s, i) ==
  IF \A j \in i..Len(s) : TryCap(s, j) = 0 THEN <<>>
  ELSE LET j == CHOOSE j \in i..Len(s) :
                  TryCap(s, j) > 0 /\ \A k \in i..(j - 1) : TryCap(s, k) = 0
           e == TryCap(s, j)
       IN <<SubSeq(s, j, e)>> \o CapMatchesFrom(s, e + 1)

CapMatches(s) == CapMatchesFrom(s, 1)

\* Array.from(new Set(arr)): the first occurrence of each element, in order
RECURSIVE Distinct(_)
Distinct(arr) ==
  IF arr = <<>> THEN <<>>
  ELSE LET init == SubSeq(arr, 1, Len(arr) - 1)
           x == arr[Len(arr)]
       IN IF \E i \in 1..Len(init) : init[i] = x THEN Distinct(init)
          ELSE Append(Distinct(init), x)

\* s has sub at index i
HasAt(s, sub, i) == i + Len(sub) - 1 <= Len(s) /\ SubSeq(s, i, i + Len(sub) - 1) = sub

\* s.indexOf(sub), as an index from 1; 0 when sub does not occur
IndexOf(s, sub) ==
  IF ~Includes(s, sub) THEN 0
  ELSE CHOOSE i \in 1..Len(s) : HasAt(s, sub, i) /\ \A k \in 1..(i - 1) : ~HasAt(s, sub, k)

\* the number of non-overlapping occurrences of sub in s from index i on
RECURSIVE CountFrom(_, _, _)
CountFrom(s, sub, i) ==
  IF \A j \in i..Len(s) : ~HasAt(s, sub, j) THEN 0
  ELSE LET j == CHOOSE j \in i..Len(s) :
                  HasAt(s, sub, j) /\ \A k \in i..(j - 1) : ~HasAt(s, sub, k)
       IN 1 + CountFrom(s, sub, j + Len(sub))

\* ------------------------------------------------------------ raw markup
\* the serialized document as far as the tests on the raw text can tell: the
\* link and anchor markup followed by the body text
RawHtml(d) == d.markup \o d.bodyText

sLlmsTxt == <<"l", "l", "m", "s", ".", "t", "x", "t">>
sLlmTxt == <<"l", "l", "m", ".", "t", "x", "t">>
sRobotsTxt == <<"r", "o", "b", "o", "t", "s", ".", "t", "x", "t">>
sRel == <<"r", "e", "l">>
sAlternate == <<"a", "l", "t", "e", "r", "n", "a", "t", "e">>
sHreflang == <<"h", "r", "e", "f", "l", "a", "n", "g">>
Quotes == {"\"", "'"}

\* /rel\s*=\s*["']alternate["']\s+hreflang/.test(s)
HreflangLinkRe(s) ==
  \E i \in 1..Len(s) :
    /\ HasAt(s, sRel, i)
    /\ LET a == RunEnd(s, i + 3, Spaces) + 1
       IN /\ a <= Len(s) /\ s[a] = "="
          /\ LET q == RunEnd(s, a + 1, Spaces) + 1
             IN /\ q <= Len(s) /\ s[q] \in Quotes
                /\ HasAt(s, sAlternate, q + 1)
                /\ q + 10 <= Len(s) /\ s[q + 10] \in Quotes
                /\ LET h == RunEnd(s, q + 11, Spaces) + 1
                   IN h > q + 11 /\ HasAt(s, sHreflang, h)

\* ---------------------------------------------------- computeHintsFromHtml
SentenceEnds == {".", "!", "?"}

\* flesch >= 60 ? 'Easy' : (flesch >= 50 ? 'Fairly easy' : ...)
readabilityLabel(flesch) ==
  IF flesch.num >= 60 THEN "Easy"
  ELSE IF flesch.num >= 50 THEN "Fairly easy"
  ELSE IF flesch.num >= 30 THEN "Difficult"
  ELSE "Very difficult"

\* prelim?.checks?.json_ld?.detail?.count || 0
JsonLdCountOf(report) == report.checks["json_ld"].detail.count

\* a hints object that keeps the first cap matches and the first top distinct
\* ones
HintsEntities(bodyText, cap, top) == Slice0(Distinct(Slice0(CapMatches(bodyText), cap)), top)

computeHintsFromHtml(d, report) ==
  LET htmlLower == ToLowerCase(RawHtml(d))
      bodyText == NormalizedBody(d)
      sentences == OrOne(Len(SelectSeq(Tokens(bodyText, SentenceEnds),
                                       LAMBDA x : Len(Trim(x)) > 0)))
      wordsArr == Tokens(bodyText, Spaces)
      words == OrOne(Len(wordsArr))
      syllables == OrOne(SumSyllables(wordsArr))
      flesch == Flesch(words, sentences, syllables)
  IN [foundFiles |-> [llmsTxt |-> Includes(htmlLower, sLlmsTxt) \/ Includes(htmlLower, sLlmTxt),
                      robotsTxt |-> Includes(htmlLower, sRobotsTxt),
                      hreflang |-> HreflangLinkRe(htmlLower)],
      readability |-> [flesch |-> flesch, label |-> readabilityLabel(flesch)],
      jsonLdCount |-> JsonLdCountOf(report),
      topEntities |-> HintsEntities(bodyText, 15, 5),
      hreflangCount |-> CountFrom(htmlLower, sHreflang, 1)]

\* -------------------------------------------------------- advancedAnalysis
sExampleCom == <<"h", "t", "t", "p", "s", ":", "/", "/", "e", "x", "a", "m", "p", "l", "e", ".", "c", "o", "m">>
\* const TARGET_URL = process.argv[2] || 'https://example.com'
TARGET_URL == IF Truthy(argv) THEN argv.val ELSE sExampleCom

sSchemeEnd == <<":", "/", "/">>
sAnchorOpen == <<"<", "a", " ", "h", "r", "e", "f", "=", "\"">>
sMainOpen == <<"<", "m", "a", "i", "n">>
sSitemapXml == <<"s", "i", "t", "e", "m", "a", "p", ".", "x", "m", "l">>

\* (new URL(url)).hostname, for an address without credentials and port: the
\* text between the scheme and the next slash, in lower case
Hostname(url) ==
  LET from == IndexOf(url, sSchemeEnd) + Len(sSchemeEnd)
  IN ToLowerCase(SubSeq(url, from, RunEndNot(url, from, {"/", "?", "#"})))

\* the href values of the <a href="..."> elements of the markup, from index i on
RECURSIVE AnchorHrefsFrom(_, _)
AnchorHrefsFrom(s, i) ==
  IF \A j \in i..Len(s) : ~HasAt(ToLowerCase(s), sAnchorOpen, j) THEN <<>>
  ELSE LET j == CHOOSE j \in i..Len(s) :
                  /\ HasAt(ToLowerCase(s), sAnchorOpen, j)
                  /\ \A k \in i..(j - 1) : ~HasAt(ToLowerCase(s), sAnchorOpen, k)
           v == j + Len(sAnchorOpen)
           e == RunEndNot(s, v, {"\""})
       IN <<SubSeq(s, v, e)>> \o AnchorHrefsFrom(s, e + 1)

\* $('a[href^="/"]').length + $('a[href*="' + hostname + '"]').length
InternalLinks(hrefs, hostname) ==
  Cardinality({i \in 1..Len(hrefs) : StartsWith(hrefs[i], <<"/">>)})
  + Cardinality({i \in 1..Len(hrefs) : Includes(hrefs[i], hostname)})

\* (robotsMeta.includes('noindex') ? 0 : 15)
RobotsPoints(robotsMeta) == IF Includes(robotsMeta, sNoindex) THEN 0 ELSE 15

\* Math.min(a, b)
Min(a, b) == IF a < b THEN a ELSE b

\* res.crawlability
Crawlability(d) ==
  LET robotsMeta == AttrOrEmpty(FirstAttr(MetaNamed(d, sRobots), "content"))
      canonical == OrNull(d.canonical)
      sitemapInHtml == Includes(ToLowerCase(RawHtml(d)), sSitemapXml)
      hrefs == AnchorHrefsFrom(d.markup, 1)
      internalLinks == InternalLinks(hrefs, Hostname(TARGET_URL))
      totalLinks == OrOne(Len(hrefs))
      internalDensity == Round(internalLinks * 100, totalLinks)
      main == CountFrom(ToLowerCase(d.markup), sMainOpen, 1)
      crawlScore == Min(100, (IF Truthy(d.canonical) THEN 20 ELSE 0)
                             + RobotsPoints(robotsMeta)
                             + (IF sitemapInHtml THEN 20 ELSE 0)
                             + Min(30, internalDensity)
                             + (IF main # 0 THEN 15 ELSE 0))
  IN [robotsMeta |-> robotsMeta, canonical |-> canonical, sitemapInHtml |-> sitemapInHtml,
      internalLinks |-> internalLinks, totalLinks |-> totalLinks,
      internalDensity |-> internalDensity, main |-> main, crawlScore |-> crawlScore]

\* the crawlability, content-quality and entity-recognition parts of the result
advancedAnalysis(d, report) ==
  LET bodyText == NormalizedBody(d)
      wordsArr == Tokens(bodyText, Spaces)
      words == Len(wordsArr)
      syllables == OrOne(SumSyllables(wordsArr))
      sentences == OrOne(Len(Tokens(bodyText, SentenceEnds)))
  IN [crawlability |-> Crawlability(d),
      contentQualityForAI |-> [words |-> words,
                               flesch |-> Flesch(words, sentences, syllables)],
      entityRecognition |-> [topEntities |-> HintsEntities(bodyText, 50, 10)]]

\* ------------------------------------------------------- calculateGeoScore
LocalityWords ==
  {<<"c", "i", "t", "y">>,
   <<"t", "o", "w", "n">>,
   <<"d", "i", "s", "t", "r", "i", "c", "t">>,
   <<"a", "v", "e", "n", "u", "e">>,
   <<"s", "t", "r", "e", "e", "t">>,
   <<"r", "o", "a", "d">>,
   <<"c", "o", "u", "n", "t", "y">>,
   <<"a", "r", "e", "a">>}

\* the test without the i flag
LocalityRe_CaseSensitive(t) == \E w \in LocalityWords : Includes(t, w)

\* /city|town|district|avenue|street|road|county|area/i.test(t)
LocalityRe(t) == \E w \in LocalityWords : Includes(ToLowerCase(t), w)

\* /[A-Z][a-z]{2,}/.test(e)
CapWordRe(e) == \E i \in 1..Len(e) : TryCapWord(e, i) > 0

Clamp(lo, hi, n) == IF n < lo THEN lo ELSE IF n > hi THEN hi ELSE n

geoBreakdown(report, hintsObj) ==
  LET jsonLdCount == JsonLdCountOf(report)
      localOk == report.checks["local_schema"].ok
      geoDetail == report.checks["geo"].detail
      topEntities == hintsObj.topEntities
      localMentions == Cardinality({i \in 1..Len(topEntities) : CapWordRe(topEntities[i])})
      signals == (IF hintsObj.foundFiles.llmsTxt THEN 1 ELSE 0)
                 + (IF hintsObj.hreflangCount # 0 THEN 1 ELSE 0)
                 + (IF jsonLdCount > 0 THEN 1 ELSE 0)
  IN [schemaScore |-> IF localOk THEN 30 ELSE IF jsonLdCount > 0 THEN 15 ELSE 0,
      addressScore |-> IF localOk THEN 15
                       ELSE IF \E i \in 1..Len(topEntities) : LocalityRe(topEntities[i])
                       THEN 6 ELSE 0,
      phoneScore |-> IF Len(geoDetail.phones) > 0 THEN 15 ELSE 0,
      coordsScore |-> IF Len(geoDetail.coords) > 0 THEN 10 ELSE 0,
      geoMetaScore |-> IF Cardinality(DOMAIN geoDetail.geoMeta) > 0 THEN 5 ELSE 0,
      hreflangScore |-> IF hintsObj.hreflangCount # 0 /\ hintsObj.hreflangCount > 0 THEN 10 ELSE 0,
      localDensityScore |-> IF localMentions >= 3 THEN 10
                            ELSE IF localMentions >= 1 THEN 4 ELSE 0,
      localSignalsScore |-> IF signals >= 2 THEN 5 ELSE IF signals = 1 THEN 2 ELSE 0]

\* no clamp, and the combined-signal bonus counted twice
calculateGeoScore_BonusTwice(report, hintsObj) ==
  LET b == geoBreakdown(report, hintsObj)
      total == b.schemaScore + b.addressScore + b.phoneScore + b.coordsScore
               + b.geoMetaScore + b.hreflangScore + b.localDensityScore
               + b.localSignalsScore + b.localSignalsScore
  IN [GEO_SCORE |-> total, breakdown |-> b]

\* total is a sum of integers, which Math.round leaves as it is
calculateGeoScore(report, hintsObj) ==
  LET b == geoBreakdown(report, hintsObj)
      total == b.schemaScore + b.addressScore + b.phoneScore + b.coordsScore
               + b.geoMetaScore + b.hreflangScore + b.localDensityScore
               + b.localSignalsScore
  IN [GEO_SCORE |-> Clamp(0, 100, total), breakdown |-> b]

\* --------------------------------------------------------------- documents
Meta(name, content) == [name |-> Attr(name), content |-> content, charset |-> NoAttr]
MetaCharset(v) == [name |-> NoAttr, content |-> NoAttr, charset |-> Attr(v)]

\* the sequences over S of length at most n
SeqsUpTo(S, n) == UNION {[1..k -> S] : k \in 0..n}

tEn == <<"e", "n">>
tUtf8 == <<"u", "t", "f", "-", "8">>
tWidth == <<"w", "i", "d", "t", "h", "=", "d", "e", "v", "i", "c", "e", "-", "w", "i", "d", "t", "h">>
tHome == <<"H", "o", "m", "e">>
tUrl == <<"h", "t", "t", "p", "s", ":", "/", "/", "a", ".", "i", "o", "/">>
tUS == <<"U", "S">>
tGeoRegion == <<"g", "e", "o", ".", "r", "e", "g", "i", "o", "n">>
tGeoPositionUpper == <<"G", "E", "O", ".", "p", "o", "s", "i", "t", "i", "o", "n">>
tKeywords == <<"k", "e", "y", "w", "o", "r", "d", "s">>
tViewportCapital == <<"V", "i", "e", "w", "p", "o", "r", "t">>
tIndexFollow == <<"i", "n", "d", "e", "x", ",", " ", "f", "o", "l", "l", "o", "w">>
tNoindexUpper == <<"N", "O", "I", "N", "D", "E", "X">>
tNoindexNofollow == <<"N", "o", "I", "n", "d", "e", "x", ",", " ", "n", "o", "f", "o", "l", "l", "o", "w">>
tNoSpaceIndex == <<"n", "o", " ", "i", "n", "d", "e", "x">>
tLocalBusiness == <<"L", "o", "c", "a", "l", "B", "u", "s", "i", "n", "e", "s", "s">>
tOrganization == <<"O", "r", "g", "a", "n", "i", "z", "a", "t", "i", "o", "n">>
tPerson == <<"P", "e", "r", "s", "o", "n">>
tPhone == <<"5", "5", "5", "-", "0", "1", "0", "0">>
tPlaceUpper == <<"P", "L", "A", "C", "E">>
tStreet == <<"1", " ", "M", "a", "i", "n", " ", "S", "t">>

\* the values each part of a document ranges over
LangVals == {NoAttr, Attr(<<>>), Attr(tEn)}

CharsetVals ==
  {<<>>, <<MetaCharset(tUtf8)>>, <<MetaCharset(<<>>)>>,
   <<MetaCharset(<<>>), MetaCharset(tUtf8)>>}

ViewportVals ==
  {<<>>, <<Meta(sViewport, Attr(tWidth))>>, <<Meta(sViewport, NoAttr)>>,
   <<Meta(tViewportCapital, Attr(tWidth))>>}

TitleVals ==
  {<<>>, tHome, Rep("t", 9), <<" ">> \o Rep("t", 9), Rep("t", 10),
   <<" ">> \o Rep("t", 10) \o <<"\n">>}

DescVals ==
  {<<>>, <<Meta(sDescription, NoAttr)>>}
  \cup {<<Meta(sDescription, Attr(Rep("d", n)))>> : n \in {19, 20, 49, 50, 160, 161}}
  \cup {<<Meta(sDescription, Attr(<<" ">> \o Rep("d", n) \o <<" ", "\n">>))>> :
          n \in {19, 49, 160}}

H1Vals == 0..MaxH1

CanonicalVals == {NoAttr, Attr(<<>>), Attr(tUrl)}

RobotsVals ==
  {<<>>, <<Meta(sRobots, NoAttr)>>}
  \cup {<<Meta(sRobots, Attr(c))>> :
          c \in {tIndexFollow, sNoindex, tNoindexUpper, tNoindexNofollow, tNoSpaceIndex}}

Blocks ==
  {BlankScript, InvalidScript,
   JsonScript(JNull), JsonScript(JNum(7)), JsonScript(JStr(tLocalBusiness)),
   JsonScript(JObj(<<>>)),
   JsonScript(JObj("@type" :> JStr(tLocalBusiness))),
   JsonScript(JObj("@type" :> JArr(<<JStr(tOrganization)>>))),
   JsonScript(JObj("type" :> JStr(tPerson) @@ "telephone" :> JStr(tPhone))),
   JsonScript(JObj("@type" :> JStr(tPerson) @@ "telephone" :> JStr(<<>>))),
   JsonScript(JObj("@type" :> JStr(<<>>) @@ "type" :> JStr(tPlaceUpper))),
   JsonScript(JObj("@type" :> JStr(tPerson) @@ "type" :> JStr(tOrganization))),
   JsonScript(JArr(<<>>)),
   JsonScript(JArr(<<JNull>>)),
   JsonScript(JArr(<<JObj("@type" :> JStr(tOrganization)), JNull>>)),
   JsonScript(JArr(<<JNum(1), JObj("address" :> JObj("streetAddress" :> JStr(tStreet)))>>))}

ScriptsVals == SeqsUpTo(Blocks, MaxBlocks)

AltVals == {NoAttr, Attr(<<" ">>), Attr(<<"a">>)}

ImgsVals == SeqsUpTo(AltVals, MaxImgs)

GeoMetaVals ==
  {<<>>, <<Meta(tGeoRegion, Attr(tUS))>>, <<Meta(tGeoPositionUpper, NoAttr)>>,
   <<Meta(sOgLocale, Attr(tEn))>>, <<Meta(sOgSiteName, NoAttr)>>,
   <<Meta(tKeywords, Attr(tUS))>>,
   <<Meta(tGeoRegion, Attr(tUS)), Meta(tGeoRegion, NoAttr)>>,
   <<[name |-> NoAttr, content |-> Attr(tUS), charset |-> NoAttr]>>}

\* s repeated n times
RECURSIVE Times(_, _)
Times(s, n) == IF n = 0 THEN <<>> ELSE s \o Times(s, n - 1)

tParisNewYork ==
  <<"P", "a", "r", "i", "s", " ", "i", "s", " ", "b", "e", "a", "u", "t", "i", "f", "u", "l", ".", " ", "N", "e", "w", " ", "Y", "o", "r", "k", " ", "i", "s", " ", "b", "u", "s", "y", ".">>
tCafe ==
  <<"C", "a", "l", "l", " ", "M", "a", "i", "n", " ", "S", "t", "r", "e", "e", "t", " ", "C", "a", "f", "e", ",", " ", "S", "p", "r", "i", "n", "g", "f", "i", "e", "l", "d", " ", "T", "o", "w", "n", ",", " ", "P", "a", "r", "i", "s", ".", " ", "5", "5", "5", "-", "1", "2", "3", "-", "4", "5", "6", "7", " ", "a", "t", " ", "1", "2", ".", "5", ",", " ", "-", "3", ".", "2", "5">>
tMainRoad ==
  <<" ", " ", "T", "h", "e", " ", "s", "h", "o", "p", " ", "i", "s", " ", "o", "n", " ", "M", "a", "i", "n", " ", "R", "o", "a", "d", ".", "\n", "\n", "O", "p", "e", "n", " ", "l", "a", "t", "e", "!", " ">>
tBoundaries ==
  <<"N", "e", "w", " ", "Y", "o", "r", "k", "C", "i", "t", "y", " ", "M", "c", "D", "o", "n", "a", "l", "d", " ", "P", "a", "r", "i", "s", "2", " ", "U", "S", "A", " ", "I", "o", " ", "t", "h", "e", "_", "A", "b", "c", " ", "A", "b", "c", "d", " ", " ", "E", "f", "g", "h">>
tTwelve ==
  <<"A", "a", "a", ",", " ", "B", "b", "b", ",", " ", "C", "c", "c", ",", " ", "D", "d", "d", ",", " ", "E", "e", "e", ",", " ", "F", "f", "f", ",", " ", "G", "g", "g", ",", " ", "H", "h", "h", ",", " ", "I", "i", "i", ",", " ", "J", "j", "j", ",", " ", "K", "k", "k", ",", " ", "L", "l", "l">>
tNumbers ==
  <<"1", "2", "3", " ", "4", "5", "6">>
tBlank ==
  <<" ", "\n", " ">>
tDots ==
  <<".", ".", ".">>
tSpacedDots ==
  <<"a", ".", " ", ".", " ", "b">>
tRooms ==
  <<"R", "o", "o", "m", "s", " ", "1", "0", "1", " ", "-", " ", "1", "0", "5">>
tAbc == <<"A", "b", "c", ",", " ">>
tXyz == <<"X", "y", "z">>

tAlternateLink ==
  <<"<", "l", "i", "n", "k", " ", "r", "e", "l", "=", "\"", "a", "l", "t", "e", "r", "n", "a", "t", "e", "\"", " ", "h", "r", "e", "f", "l", "a", "n", "g", "=", "\"", "d", "e", "\"", " ", "h", "r", "e", "f", "=", "\"", "/", "d", "e", "\"", ">">>
tAlternateLinkUpper ==
  <<"<", "L", "I", "N", "K", " ", "R", "E", "L", " ", "=", " ", "'", "a", "l", "t", "e", "r", "n", "a", "t", "e", "'", " ", " ", "H", "R", "E", "F", "L", "A", "N", "G", "=", "\"", "f", "r", "\"", ">">>
tMainSitemap ==
  <<"<", "m", "a", "i", "n", ">", "<", "a", " ", "h", "r", "e", "f", "=", "\"", "h", "t", "t", "p", "s", ":", "/", "/", "E", "x", "a", "m", "p", "l", "e", ".", "c", "o", "m", "/", "S", "i", "t", "e", "m", "a", "p", ".", "x", "m", "l", "\"", ">", "<", "a", " ", "h", "r", "e", "f", "=", "\"", "h", "t", "t", "p", "s", ":", "/", "/", "e", "x", "a", "m", "p", "l", "e", ".", "c", "o", "m", "/", "a", "\"", ">", "<", "a", " ", "h", "r", "e", "f", "=", "\"", "h", "t", "t", "p", "s", ":", "/", "/", "b", ".", "i", "o", "/", "\"", ">">>
tLlmsAnchor == <<"<", "a", " ", "h", "r", "e", "f", "=", "\"", "/", "l", "l", "m", "s", ".", "t", "x", "t", "\"", ">">>
tLlmAnchorUpper == <<"<", "a", " ", "h", "r", "e", "f", "=", "\"", "/", "L", "L", "M", ".", "T", "X", "T", "\"", ">">>
tRobotsAnchor == <<"<", "a", " ", "h", "r", "e", "f", "=", "\"", "/", "r", "o", "b", "o", "t", "s", ".", "t", "x", "t", "\"", ">">>

MarkupVals ==
  {<<>>, tAlternateLink, tAlternateLink \o tAlternateLinkUpper, tLlmsAnchor,
   tLlmAnchorUpper \o tAlternateLinkUpper, tRobotsAnchor, tMainSitemap}

BodyVals ==
  {<<>>, <<"C", "a", "l", "l", " ", "5", "5", "5", "-", "1", "2", "3", "-", "4", "5", "6", "7", " ", "n", "o", "w">>, <<"1", "-", "-", "-", "-", "-", "-", "2">>,
   <<"1", "2", "3", "4", "5", "6", "7">>, <<"+", "1", "2", "3", "4", "5", "6", "7", "8">>,
   <<"a", "t", " ", "1", "2", ".", "5", ",", " ", "-", "3", ".", "2", "5">>, <<"v", "1", ".", "2", ",", "3">>,
   tParisNewYork, tCafe, tMainRoad, tBoundaries, tTwelve, tNumbers, tBlank, tDots,
   tSpacedDots, Times(tAbc, 14) \o tXyz, Times(tAbc, 15) \o tXyz,
   Times(tAbc, 49) \o tXyz, Times(tAbc, 50) \o tXyz, tRooms}

\* a document, from its parts
DocOf(f) ==
  [lang |-> f.lang,
   metas |-> f.charset \o f.viewport \o f.desc \o f.robots \o f.geometa,
   title |-> f.title, h1Count |-> f.h1, canonical |-> f.canonical,
   scripts |-> f.scripts, imgs |-> f.imgs, markup |-> f.markup,
   bodyText |-> f.body]

\* every combination of a passing and a failing value of each part
CoreParts ==
  [lang : {NoAttr, Attr(tEn)},
   charset : {<<>>, <<MetaCharset(tUtf8)>>},
   viewport : {<<>>, <<Meta(sViewport, Attr(tWidth))>>},
   title : {tHome, Rep("t", 10)},
   desc : {<<>>, <<Meta(sDescription, Attr(Rep("d", 50)))>>},
   h1 : {0, 1},
   canonical : {NoAttr, Attr(tUrl)},
   robots : {<<>>, <<Meta(sRobots, Attr(tNoindexUpper))>>},
   scripts : {<<>>, <<InvalidScript>>, <<JsonScript(JObj("@type" :> JStr(tLocalBusiness)))>>},
   imgs : {<<>>, <<NoAttr>>},
   geometa : {<<>>, <<Meta(tGeoRegion, Attr(tUS))>>},
   markup : {<<>>},
   body : {<<>>}]

EmptyParts ==
  [lang |-> NoAttr, charset |-> <<>>, viewport |-> <<>>, title |-> <<>>,
   desc |-> <<>>, h1 |-> 0, canonical |-> NoAttr, robots |-> <<>>,
   scripts |-> <<>>, imgs |-> <<>>, geometa |-> <<>>, markup |-> <<>>,
   body |-> <<>>]

ExampleParts ==
  [EmptyParts EXCEPT !.lang = Attr(tEn), !.charset = <<MetaCharset(tUtf8)>>,
                     !.title = tHome, !.h1 = 1,
                     !.imgs = <<Attr(<<"a">>), Attr(<<"a">>)>>]

RichParts ==
  [lang |-> Attr(tEn), charset |-> <<MetaCharset(tUtf8)>>,
   viewport |-> <<Meta(sViewport, Attr(tWidth))>>, title |-> Rep("t", 10),
   desc |-> <<Meta(sDescription, Attr(Rep("d", 50)))>>, h1 |-> 1,
   canonical |-> Attr(tUrl), robots |-> <<Meta(sRobots, Attr(tIndexFollow))>>,
   scripts |-> <<JsonScript(JObj("@type" :> JStr(tLocalBusiness)))>>,
   imgs |-> <<Attr(<<"a">>)>>, geometa |-> <<Meta(tGeoRegion, Attr(tUS))>>,
   markup |-> <<>>, body |-> <<>>]

BaseParts == {EmptyParts, ExampleParts, RichParts}

\* one part of a base document ranging over all its values
VariedParts ==
  UNION {
    {[b EXCEPT !.lang = v] : v \in LangVals}
    \cup {[b EXCEPT !.charset = v] : v \in CharsetVals}
    \cup {[b EXCEPT !.viewport = v] : v \in ViewportVals}
    \cup {[b EXCEPT !.title = v] : v \in TitleVals}
    \cup {[b EXCEPT !.desc = v] : v \in DescVals}
    \cup {[b EXCEPT !.h1 = v] : v \in H1Vals}
    \cup {[b EXCEPT !.canonical = v] : v \in CanonicalVals}
    \cup {[b EXCEPT !.robots = v] : v \in RobotsVals}
    \cup {[b EXCEPT !.geometa = v] : v \in GeoMetaVals}
    \cup {[b EXCEPT !.markup = v] : v \in MarkupVals}
    \cup {[b EXCEPT !.body = v] : v \in BodyVals}
    : b \in BaseParts}
  \cup {[EmptyParts EXCEPT !.scripts = v] : v \in ScriptsVals}
  \cup {[b EXCEPT !.imgs = v] : b \in {EmptyParts, RichParts}, v \in ImgsVals}

\* the parts the local-relevance score reads, in every combination
GeoParts ==
  {[EmptyParts EXCEPT !.scripts = sc, !.geometa = g, !.markup = m, !.body = b] :
     sc \in {<<>>, <<InvalidScript>>, <<JsonScript(JObj(<<>>))>>,
             <<JsonScript(JObj("@type" :> JStr(tLocalBusiness)))>>},
     g \in {<<>>, <<Meta(tGeoRegion, Attr(tUS))>>},
     m \in MarkupVals, b \in BodyVals}

Docs == {DocOf(f) : f \in CoreParts \cup VariedParts \cup GeoParts}

\* ------------------------------------------------------------------- main
sResultHash == <<"#", "r", "e", "s", "u", "l", "t", "-">>
sDoctype == <<"<", "!", "D", "O", "C", "T", "Y", "P", "E">>
sHtmlTag == <<"<", "h", "t", "m", "l">>
tKey == <<"s", "k", "_", "1">>
tPageA == <<"<", "h", "t", "m", "l", ">", "<", "p", ">", "A", "<", "/", "p", ">", "<", "/", "h", "t", "m", "l", ">">>
tPageB == <<" ", "<", "p", ">", "B", "<", "/", "p", ">">>
tPlainDoctype == <<"m", "o", "v", "e", "d", ":", " ", "<", "!", "D", "O", "C", "T", "Y", "P", "E", " ", "h", "t", "m", "l", ">", "<", "p", ">", "C", "<", "/", "p", ">">>

\* process.env.SCRAPING_KEY || ''
SCRAPING_KEY == AttrOrEmpty(env.SCRAPING_KEY)

\* process.env.OPENAI_API_KEY || ''
OPENAI_API_KEY == AttrOrEmpty(env.OPENAI_API_KEY)

\* the decimal digits of a small index
DigitText(i) == <<(<<"0", "1", "2", "3", "4", "5", "6", "7", "8", "9">>)[i + 1]>>

\* JSON.stringify of a crawl result or response, for values without quotes,
\* backslashes and line breaks
RECURSIVE Stringify(_)
Stringify(resp) ==
  LET field(name, a) == IF a.has THEN <<"\"">> \o name \o <<"\"", ":", "\"">> \o a.val \o <<"\"">>
                        ELSE <<>>
      RECURSIVE items(_)
      items(rs) == IF rs = <<>> THEN <<>>
                   ELSE Stringify(Head(rs)) \o (IF Len(rs) > 1 THEN <<",">> ELSE <<>>)
                        \o items(Tail(rs))
      parts == <<field(<<"u", "r", "l">>, resp.url), field(<<"h", "t", "m", "l">>, resp.html),
                 IF resp.results # <<>>
                 THEN <<"\"", "r", "e", "s", "u", "l", "t", "s", "\"", ":", "[">>
                      \o items(resp.results) \o <<"]">>
                 ELSE <<>>>>
      present == SelectSeq(parts, LAMBDA x : x # <<>>)
      RECURSIVE join(_)
      join(ps) == IF ps = <<>> THEN <<>>
                  ELSE Head(ps) \o (IF Len(ps) > 1 THEN <<",">> ELSE <<>>) \o join(Tail(ps))
  IN <<"{">> \o join(present) \o <<"}">>

\* typeof c === 'string' && c.trim().startsWith('<')
IsMarkup(a) == a.has /\ StartsWith(Trim(a.val), <<"<">>)

\* function extractHtmlFromResponse(resp), for a response object with the
\* properties url, html and results: the string found, NoAttr for null
extractHtmlFromResponse(resp) ==
  LET first == IF resp.results # <<>> THEN resp.results[1].html ELSE NoAttr
      str == Stringify(resp)
      idx == IF IndexOf(str, sDoctype) # 0 THEN IndexOf(str, sDoctype)
             ELSE IndexOf(str, sHtmlTag)
  IN IF IsMarkup(resp.html) THEN resp.html
     ELSE IF IsMarkup(first) THEN first
     ELSE IF idx # 0 THEN Attr(SubSeq(str, idx, Len(str)))
     ELSE NoAttr

\* Array.isArray(crawlResponse?.results) && crawlResponse.results.length > 0
\*   ? crawlResponse.results : [crawlResponse]
ResultsOf(resp) == IF Len(resp.results) > 0 THEN resp.results ELSE <<resp>>

\* a loop that pushes every result, with or without extractable HTML
CollectPieces_KeepsAll(results, i, target) ==
  [k \in 1..(Len(results) - i + 1) |->
     LET r == results[k + i - 1]
         htmlCandidate == extractHtmlFromResponse(r)
     IN [url |-> IF Truthy(r.url) THEN r.url.val
                 ELSE target \o sResultHash \o DigitText(k + i - 2),
         html |-> IF Truthy(htmlCandidate) THEN htmlCandidate.val ELSE <<>>]]

\* the loop of main over results, from index i (counted from 1) on
RECURSIVE CollectPieces(_, _, _)
CollectPieces(results, i, target) ==
  IF i > Len(results) THEN <<>>
  ELSE LET r == results[i]
           htmlCandidate == extractHtmlFromResponse(r)
           pageUrl == IF Truthy(r.url) THEN r.url.val
                      ELSE target \o sResultHash \o DigitText(i - 1)
       IN (IF Truthy(htmlCandidate)
           THEN <<[url |-> pageUrl, html |-> htmlCandidate.val]>> ELSE <<>>)
          \o CollectPieces(results, i + 1, target)

\* the template literal of line 868 around a piece
sPageOpen ==
  <<"\n", "\n", "<", "!", "-", "-", " ", "-", "-", "-", " ", "P", "A", "G", "E", ":", " ">>
sPageClose == <<" ", "-", "-", "-", " ", "-", "-", ">", "\n", "\n">>

\* p => `\n\n<!-- --- PAGE: ${p.url} --- -->\n\n${p.html}`
PageSection(p) == sPageOpen \o p.url \o sPageClose \o p.html

\* Array.prototype.join
RECURSIVE Join(_, _)
Join(parts, sep) ==
  IF parts = <<>> THEN <<>>
  ELSE IF Len(parts) = 1 THEN parts[1]
  ELSE parts[1] \o sep \o Join(Tail(parts), sep)

\* a combination that leaves the page markers out
CombineHtml_NoMarker(pieces) ==
  Join([i \in 1..Len(pieces) |-> pieces[i].html], <<"\n">>)

\* htmlPieces.map(p => ...).join('\n')
CombineHtml(pieces) ==
  Join([i \in 1..Len(pieces) |-> PageSection(pieces[i])], <<"\n">>)

\* const combinedHtml: the text handed to the four analysis functions
combinedHtml == CombineHtml(htmlPieces)

\* outObj.pagesFound: htmlPieces.length
pagesFound == Len(htmlPieces)

\* the value of outObj.ai
AiPayload(sugs) == [kind |-> "payload", ai_suggestions |-> sugs]
AiRaw == [kind |-> "raw"]
\* a caught failure that leaves the field unset
AiError_Unset == JUndefined

\* { error: String(e) }
AiError == [kind |-> "error"]

\* async function callOpenAIWithSchema(...), with the outcome of the request
\* when one is made
callOpenAIWithSchema(key, outcome) ==
  IF key = <<>> THEN [warned |-> TRUE, called |-> FALSE, threw |-> FALSE, value |-> JNull]
  ELSE [warned |-> FALSE, called |-> TRUE, threw |-> outcome.threw, value |-> outcome.value]

\* s.key || s.advice || 'issue'
PrelimIssueKey(s) ==
  IF s.key # "" THEN s.key ELSE IF AdviceGiven(s.advice) THEN s.advice ELSE "issue"

\* s.key || s.title || JSON.stringify(s).slice(0,40)
AiIssueKey(s) == IF s.key # "" THEN s.key ELSE IF s.title # "" THEN s.title ELSE "{}"

\* an insertion that sorts the other way round
InsertByCount_Ascending(sorted, x) ==
  LET before == {i \in 1..Len(sorted) : sorted[i].count <= x.count}
      k == Cardinality(before)
  IN SubSeq(sorted, 1, k) \o <<x>> \o SubSeq(sorted, k + 1, Len(sorted))

\* an entry goes after every entry whose count is not smaller (stable sort by
\* (a, b) => b[1] - a[1])
InsertByCount(sorted, x) ==
  LET before == {i \in 1..Len(sorted) : sorted[i].count >= x.count}
      k == Cardinality(before)
  IN SubSeq(sorted, 1, k) \o <<x>> \o SubSeq(sorted, k + 1, Len(sorted))

RECURSIVE SortByCount(_)
SortByCount(entries) ==
  IF entries = <<>> THEN <<>>
  ELSE InsertByCount(SortByCount(SubSeq(entries, 1, Len(entries) - 1)),
                     entries[Len(entries)])

\* outObj.topIssues
TopIssues(report, aiValue) ==
  LET fromPrelim == [i \in 1..Len(report.suggestions) |-> PrelimIssueKey(report.suggestions[i])]
      fromAi == IF aiValue.kind = "payload"
                THEN [i \in 1..Len(aiValue.ai_suggestions) |-> AiIssueKey(aiValue.ai_suggestions[i])]
                ELSE <<>>
      keys == fromPrelim \o fromAi
      order == Distinct(keys)
      counter == [i \in 1..Len(order) |->
                    [issue |-> order[i],
                     count |-> Cardinality({j \in 1..Len(keys) : keys[j] = order[i]})]]
  IN SortByCount(counter)

\* the values the run starts from
ArgVals == {NoAttr, Attr(<<>>), Attr(tUrl)}

KeyVals == {NoAttr, Attr(tKey)}

ResultVals ==
  {[url |-> NoAttr, html |-> NoAttr, results |-> <<>>],
   [url |-> Attr(tUrl), html |-> Attr(tPageA), results |-> <<>>],
   [url |-> NoAttr, html |-> Attr(tPageB), results |-> <<>>],
   [url |-> Attr(tUrl), html |-> Attr(tPlainDoctype), results |-> <<>>]}

\* three results, the one in the middle without HTML
SkippingResults ==
  <<[url |-> Attr(tUrl), html |-> Attr(tPageA), results |-> <<>>],
    [url |-> NoAttr, html |-> NoAttr, results |-> <<>>],
    [url |-> NoAttr, html |-> Attr(tPageB), results |-> <<>>]>>

\* a response with a list of results, or one that is itself the only result
CrawlResponses ==
  {[url |-> NoAttr, html |-> NoAttr, results |-> rs] : rs \in SeqsUpTo(ResultVals, MaxPages)}
  \cup {r \in ResultVals : r.html.has}
  \cup {[url |-> NoAttr, html |-> NoAttr, results |-> SkippingResults]}

SuggestionVals ==
  {<<>>, <<[key |-> "title", title |-> ""]>>,
   <<[key |-> "", title |-> "speed"], [key |-> "speed", title |-> "x"],
     [key |-> "", title |-> ""], [key |-> "h1", title |-> ""], [key |-> "speed", title |-> ""]>>}

\* what the request to the enrichment service comes to
ApiOutcomes ==
  {[threw |-> TRUE, value |-> JNull], [threw |-> FALSE, value |-> AiRaw],
   [threw |-> FALSE, value |-> JNull]}
  \cup {[threw |-> FALSE, value |-> AiPayload(sugs)] : sugs \in SuggestionVals}

\* the documents the combined markup of the pages parses to
ThrowingParts == [EmptyParts EXCEPT !.scripts = <<JsonScript(JArr(<<JNull>>))>>]

MainDocs == {DocOf(f) : f \in {EmptyParts, RichParts, ThrowingParts}}

NoFiles == [debug |-> "unattempted", json |-> "unattempted", html |-> "unattempted"]

\* no run of main: only the analysis of a document
NotRunning ==
  /\ argv = NoAttr
  /\ env = [SCRAPING_KEY |-> NoAttr, OPENAI_API_KEY |-> NoAttr]
  /\ mpc = "off"
  /\ exitCode = 0
  /\ logs = <<>>
  /\ crawlCalls = 0
  /\ aiCalls = 0
  /\ crawlResponse = Undefined
  /\ htmlPieces = <<>>
  /\ enrichment = "pending"
  /\ ai = JUndefined
  /\ topIssues = <<>>
  /\ files = NoFiles

\* ------------------------------------------------------------ state machine
Init ==
  /\ html \in Docs
  /\ pc = "start"
  /\ prelim = Undefined
  /\ advanced = Undefined
  /\ hints = Undefined
  /\ geo = Undefined
  /\ analyzeCalls = 0
  /\ NotRunning

\* const prelim = analyzeHtml(html): the call returns its report
AnalyzeReturns ==
  /\ pc = "start"
  /\ ~analyzeHtmlThrows(html)
  /\ prelim' = analyzeHtml(html)
  /\ analyzeCalls' = analyzeCalls + 1
  /\ pc' = "done"
  /\ UNCHANGED <<html, advanced, hints, geo, mainVars>>

\* the call throws the TypeError of the local_schema loop: no report
AnalyzeThrows ==
  /\ pc = "start"
  /\ analyzeHtmlThrows(html)
  /\ analyzeCalls' = analyzeCalls + 1
  /\ pc' = "raised"
  /\ UNCHANGED <<html, prelim, advanced, hints, geo, mainVars>>

\* const advanced = advancedAnalysis(combinedHtml, crawlResp, prelim)
Advanced ==
  /\ pc = "done"
  /\ advanced = Undefined
  /\ advanced' = advancedAnalysis(html, prelim)
  /\ UNCHANGED <<html, pc, prelim, hints, geo, analyzeCalls, mainVars>>

\* const hints = computeHintsFromHtml(combinedHtml, prelim)
Hints ==
  /\ advanced # Undefined
  /\ hints = Undefined
  /\ hints' = computeHintsFromHtml(html, prelim)
  /\ UNCHANGED <<html, pc, prelim, advanced, geo, analyzeCalls, mainVars>>

\* const geo = calculateGeoScore(prelim, hints)
Geo ==
  /\ hints # Undefined
  /\ geo = Undefined
  /\ geo' = calculateGeoScore(prelim, hints)
  /\ UNCHANGED <<html, pc, prelim, advanced, hints, analyzeCalls, mainVars>>

Next == AnalyzeReturns \/ AnalyzeThrows \/ Advanced \/ Hints \/ Geo

Spec == Init /\ [][Next]_vars

\* ------------------------------------------------------- the run of main
MainInit ==
  /\ html = Undefined
  /\ pc = "idle"
  /\ prelim = Undefined
  /\ advanced = Undefined
  /\ hints = Undefined
  /\ geo = Undefined
  /\ analyzeCalls = 0
  /\ argv \in ArgVals
  /\ env \in [SCRAPING_KEY : KeyVals, OPENAI_API_KEY : KeyVals]
  /\ mpc = "startup"
  /\ exitCode = 0
  /\ logs = <<>>
  /\ crawlCalls = 0
  /\ aiCalls = 0
  /\ crawlResponse = Undefined
  /\ htmlPieces = <<>>
  /\ enrichment = "pending"
  /\ ai = JUndefined
  /\ topIssues = <<>>
  /\ files = NoFiles

\* main up to the call of client.crawlUrl
Startup ==
  /\ mpc = "startup"
  /\ IF TARGET_URL = <<>>
     THEN /\ logs' = Append(logs, "error: No TARGET URL provided")
          /\ mpc' = "exited"
          /\ exitCode' = 1
     ELSE /\ logs' = logs \o (IF SCRAPING_KEY = <<>>
                              THEN <<"warn: SCRAPING_KEY not set">> ELSE <<>>)
                          \o <<"log: Starting crawl">>
          /\ mpc' = "crawl"
          /\ UNCHANGED exitCode
  /\ UNCHANGED <<analysisVars, argv, env, enrichment, crawlCalls, aiCalls,
                 crawlResponse, htmlPieces, ai, topIssues, files>>

\* crawlResponse = await client.crawlUrl(TARGET_URL, crawlOptions)
CrawlReturns ==
  /\ mpc = "crawl"
  /\ crawlCalls' = crawlCalls + 1
  /\ crawlResponse' \in CrawlResponses
  /\ mpc' = "collect"
  /\ UNCHANGED <<analysisVars, argv, env, enrichment, exitCode, logs, aiCalls,
                 htmlPieces, ai, topIssues, files>>

\* the call rejects: catch (err) { console.error(...); process.exit(2); }
CrawlThrows ==
  /\ mpc = "crawl"
  /\ crawlCalls' = crawlCalls + 1
  /\ logs' = Append(logs, "error: Crawl failed")
  /\ mpc' = "exited"
  /\ exitCode' = 2
  /\ UNCHANGED <<analysisVars, argv, env, enrichment, aiCalls, crawlResponse,
                 htmlPieces, ai, topIssues, files>>

\* the loop over results found pages: combinedHtml is built and parsed
Collect ==
  /\ mpc = "collect"
  /\ htmlPieces' = CollectPieces(ResultsOf(crawlResponse), 1, TARGET_URL)
  /\ Len(htmlPieces') # 0
  /\ html' \in MainDocs
  /\ pc' = "start"
  /\ mpc' = "analyze"
  /\ UNCHANGED <<prelim, advanced, hints, geo, analyzeCalls, argv, env, enrichment,
                 exitCode, logs,
                 crawlCalls, aiCalls, crawlResponse, ai, topIssues, files>>

\* htmlPieces.length === 0: the raw response is saved and the process exits
NoPages ==
  /\ mpc = "collect"
  /\ htmlPieces' = CollectPieces(ResultsOf(crawlResponse), 1, TARGET_URL)
  /\ Len(htmlPieces') = 0
  /\ files' = [files EXCEPT !.debug = "written"]
  /\ logs' = logs \o <<"error: No HTML pages found", "error: Wrote debug crawl response">>
  /\ mpc' = "exited"
  /\ exitCode' = 3
  /\ UNCHANGED <<analysisVars, argv, env, enrichment, crawlCalls, aiCalls,
                 crawlResponse, ai, topIssues>>

\* ensureReportsDir or fs.writeFileSync throws while the raw response is
\* saved: main rejects and the handler of line 949 exits
NoPagesWriteFails ==
  /\ mpc = "collect"
  /\ htmlPieces' = CollectPieces(ResultsOf(crawlResponse), 1, TARGET_URL)
  /\ Len(htmlPieces') = 0
  /\ files' = [files EXCEPT !.debug = "failed"]
  /\ logs' = logs \o <<"error: No HTML pages found", "error: Fatal error">>
  /\ mpc' = "exited"
  /\ exitCode' = 99
  /\ UNCHANGED <<analysisVars, argv, env, enrichment, crawlCalls, aiCalls,
                 crawlResponse, ai, topIssues>>

\* analyzeHtml threw: main rejects and the handler of line 949 exits
Fatal ==
  /\ mpc = "analyze"
  /\ pc = "raised"
  /\ logs' = Append(logs, "error: Fatal error")
  /\ mpc' = "exited"
  /\ exitCode' = 99
  /\ UNCHANGED <<analysisVars, argv, env, enrichment, crawlCalls, aiCalls,
                 crawlResponse, htmlPieces, ai, topIssues, files>>

\* outObj is built; if (OPENAI_API_KEY) is false: no call, outObj.ai is not
\* set, and the top issues come from the rubric alone
EnrichSkipped ==
  /\ mpc = "analyze"
  /\ geo # Undefined
  /\ OPENAI_API_KEY = <<>>
  /\ topIssues' = TopIssues(prelim, ai)
  /\ mpc' = "save"
  /\ enrichment' = "skipped"
  /\ UNCHANGED <<analysisVars, argv, env, exitCode, logs, crawlCalls,
                 aiCalls, crawlResponse, htmlPieces, ai, files>>

\* aiJson = await callOpenAIWithSchema(...); outObj.ai = aiJson
EnrichReturns ==
  /\ mpc = "analyze"
  /\ geo # Undefined
  /\ OPENAI_API_KEY # <<>>
  /\ \E outcome \in ApiOutcomes :
       LET r == callOpenAIWithSchema(OPENAI_API_KEY, outcome)
       IN /\ ~r.threw
          /\ aiCalls' = aiCalls + (IF r.called THEN 1 ELSE 0)
          /\ logs' = logs \o (IF r.warned THEN <<"warn: OPENAI_API_KEY not set">> ELSE <<>>)
          /\ ai' = r.value
          /\ topIssues' = TopIssues(prelim, r.value)
  /\ mpc' = "save"
  /\ enrichment' = "returned"
  /\ UNCHANGED <<analysisVars, argv, env, exitCode, crawlCalls,
                 crawlResponse, htmlPieces, files>>

\* a failed call that is made again: the run stays before the enrichment
EnrichFails_Retried ==
  /\ mpc = "analyze"
  /\ geo # Undefined
  /\ OPENAI_API_KEY # <<>>
  /\ aiCalls < 2
  /\ aiCalls' = aiCalls + 1
  /\ logs' = Append(logs, "error: AI call failed")
  /\ UNCHANGED <<analysisVars, argv, env, exitCode, crawlCalls, crawlResponse,
                 htmlPieces, files, ai, topIssues, mpc, enrichment>>

\* the call rejects: catch (e) { console.error(...); outObj.ai = { error: String(e) }; }
EnrichFails ==
  /\ mpc = "analyze"
  /\ geo # Undefined
  /\ OPENAI_API_KEY # <<>>
  /\ \E outcome \in ApiOutcomes :
       LET r == callOpenAIWithSchema(OPENAI_API_KEY, outcome)
       IN /\ r.threw
          /\ aiCalls' = aiCalls + (IF r.called THEN 1 ELSE 0)
          /\ logs' = logs \o (IF r.warned THEN <<"warn: OPENAI_API_KEY not set">> ELSE <<>>)
                          \o <<"error: AI call failed">>
  /\ ai' = AiError
  /\ topIssues' = TopIssues(prelim, AiError)
  /\ mpc' = "save"
  /\ enrichment' = "threw"
  /\ UNCHANGED <<analysisVars, argv, env, exitCode, crawlCalls,
                 crawlResponse, htmlPieces, files>>

\* ensureReportsDir(); fs.writeFileSync(jsonPath, ...); console.log(...)
SaveJson ==
  /\ mpc = "save"
  /\ files' = [files EXCEPT !.json = "written"]
  /\ logs' = Append(logs, "log: Saved aggregate JSON report")
  /\ mpc' = "render"
  /\ UNCHANGED <<analysisVars, argv, env, enrichment, exitCode, crawlCalls, aiCalls,
                 crawlResponse, htmlPieces, ai, topIssues>>

\* ensureReportsDir or fs.writeFileSync throws outside any try block: main
\* rejects and the handler of line 949 exits
SaveJsonFails ==
  /\ mpc = "save"
  /\ files' = [files EXCEPT !.json = "failed"]
  /\ logs' = Append(logs, "error: Fatal error")
  /\ mpc' = "exited"
  /\ exitCode' = 99
  /\ UNCHANGED <<analysisVars, argv, env, enrichment, crawlCalls, aiCalls,
                 crawlResponse, htmlPieces, ai, topIssues>>

\* await generateAggregateHtmlReport(outObj, htmlPath), then the summary; the
\* process ends when main returns
SaveHtml ==
  /\ mpc = "render"
  /\ files' = [files EXCEPT !.html = "written"]
  /\ logs' = logs \o <<"log: Saved aggregate HTML report", "log: Aggregate Summary">>
  /\ mpc' = "exited"
  /\ exitCode' = 0
  /\ UNCHANGED <<analysisVars, argv, env, enrichment, crawlCalls, aiCalls,
                 crawlResponse, htmlPieces, ai, topIssues>>

\* generateAggregateHtmlReport throws: catch (e) { console.error(...) }, then
\* the summary
SaveHtmlFails ==
  /\ mpc = "render"
  /\ files' = [files EXCEPT !.html = "failed"]
  /\ logs' = logs \o <<"error: Failed to generate HTML report", "log: Aggregate Summary">>
  /\ mpc' = "exited"
  /\ exitCode' = 0
  /\ UNCHANGED <<analysisVars, argv, env, enrichment, crawlCalls, aiCalls,
                 crawlResponse, htmlPieces, ai, topIssues>>

MainNext ==
  \/ Startup \/ CrawlReturns \/ CrawlThrows \/ Collect \/ NoPages \/ NoPagesWriteFails
  \/ AnalyzeReturns \/ AnalyzeThrows \/ Advanced \/ Hints \/ Geo \/ Fatal
  \/ EnrichSkipped \/ EnrichReturns \/ EnrichFails
  \/ SaveJson \/ SaveJsonFails \/ SaveHtml \/ SaveHtmlFails

MainSpec == MainInit /\ [][MainNext]_vars

\* ============================================================== properties
Returned == pc = "done"

Check(k) == prelim.checks[k]

Suggested(k) == \E i \in 1..Len(prelim.suggestions) : prelim.suggestions[i].key = k

RECURSIVE SumOver(_, _)
SumOver(f, keys) ==
  IF keys = {} THEN 0
  ELSE LET k == CHOOSE x \in keys : TRUE IN f[k] + SumOver(f, keys \ {k})

\* the number of images whose alt attribute holds a non-whitespace character
AltTextCount(imgs) ==
  Cardinality({i \in 1..Len(imgs) :
                 imgs[i].has /\ \E j \in 1..Len(imgs[i].val) : ~IsSpace(imgs[i].val[j])})

\* the position of a check in the order of execution
OrderOf(k) == CHOOSE i \in 1..Len(CheckOrder) : CheckOrder[i] = k

\* C1: every report analyzeHtml returns holds exactly the 12 checks lang,
\* charset, viewport, title, description, h1, canonical, robots, json_ld,
\* local_schema, images_alt and geo, each with max_points equal to its fixed
\* weight and each counted once: total_possible is the sum of the 12 weights
\* and total_awarded, the sum of the points, does not exceed it.
C1_TwelveChecksWithinTotals ==
  Returned =>
    LET keys == {"lang", "charset", "viewport", "title", "description", "h1",
                 "canonical", "robots", "json_ld", "local_schema", "images_alt", "geo"}
    IN /\ DOMAIN prelim.checks = keys
       /\ \A k \in keys : Check(k).max_points = WEIGHTS[k]
       /\ \A k \in keys : Check(k).points >= 0 /\ Check(k).points <= WEIGHTS[k]
       /\ prelim.total_possible = SumOver(WEIGHTS, keys)
       /\ prelim.total_awarded = SumOver([k \in keys |-> Check(k).points], keys)
       /\ prelim.total_awarded <= prelim.total_possible
       /\ prelim.summary.total_possible = prelim.total_possible

\* C1 witness: a returned report with failed, passed and half-credit checks
C1_Witness ==
  /\ Returned
  /\ \E k \in DOMAIN prelim.checks : ~Check(k).ok
  /\ \E k \in DOMAIN prelim.checks :
       Check(k).ok /\ Check(k).points > 0 /\ Check(k).points < Check(k).max_points
  /\ prelim.total_awarded > 0

\* the documents of the example: lang, charset, no viewport, title "Home", no
\* description, one h1, no canonical, no robots meta, no JSON-LD, two images
\* both with alt text, no geo signal
IsExampleDoc(d) ==
  /\ Truthy(d.lang)
  /\ Truthy(FirstAttr(MetaWithCharset(d), "charset"))
  /\ MetaNamed(d, sViewport) = <<>>
  /\ d.title = tHome
  /\ MetaNamed(d, sDescription) = <<>>
  /\ d.h1Count = 1
  /\ ~d.canonical.has
  /\ MetaNamed(d, sRobots) = <<>>
  /\ d.scripts = <<>>
  /\ Len(d.imgs) = 2 /\ AltTextCount(d.imgs) = 2
  /\ \A i \in 1..Len(d.metas) : ~IsGeoName(MetaName(d.metas[i]))
  /\ d.bodyText = <<>>

ExamplePoints ==
  /\ Check("lang").points = 5
  /\ Check("charset").points = 3
  /\ Check("viewport").points = 0
  /\ Check("title").points = 0
  /\ Check("description").points = 0
  /\ Check("h1").points = 6
  /\ Check("canonical").points = 0
  /\ Check("robots").points = 8
  /\ Check("json_ld").points = 0
  /\ Check("local_schema").points = 0
  /\ Check("images_alt").points = 6
  /\ Check("geo").points = 0
  /\ prelim.total_awarded = 28

\* C2 as stated: the example document is awarded 5, 3, 0, 0, 0, 6, 0, 8, 0,
\* 0, 6, 0, in total 28 of 87 possible points, a score of about 32.18%.
C2_ExampleOf87 ==
  (Returned /\ IsExampleDoc(html)) =>
    /\ ExamplePoints
    /\ prelim.total_possible = 87
    /\ prelim.summary.score \in 3217..3219

\* C2 amended: the example document is awarded 5, 3, 0, 0, 0, 6, 0, 8, 0, 0,
\* 6, 0, in total 28 of 100 possible points (the sum of the 12 weights), a
\* score of 28.00%.
C2_ExampleOf100 ==
  (Returned /\ IsExampleDoc(html)) =>
    /\ ExamplePoints
    /\ prelim.total_possible = 100
    /\ prelim.summary.total_possible = 100
    /\ prelim.summary.score = 2800

\* C2 witness: the example document has been analysed
C2_Witness == Returned /\ IsExampleDoc(html)

\* C3: with at least one image, images_alt passes iff the share of images
\* with non-blank alt text is at least 0.8; passing awards 6, failing awards
\* round(6 x ratio).
C3_ProportionalCredit ==
  (Returned /\ Len(html.imgs) >= 1) =>
    LET total == Len(html.imgs)
        withAlt == AltTextCount(html.imgs)
    IN /\ Check("images_alt").ok <=> (withAlt * 10 >= total * 8)
       /\ Check("images_alt").ok => Check("images_alt").points = 6
       /\ ~Check("images_alt").ok =>
            Check("images_alt").points = (12 * withAlt + total) \div (2 * total)

\* C4: a document with no img element passes images_alt with 6 of 6 points
\* and images_alt adds nothing to the suggestions.
C4_NoImagesFullWeight ==
  (Returned /\ html.imgs = <<>>) =>
    /\ Check("images_alt").ok
    /\ Check("images_alt").points = 6
    /\ Check("images_alt").max_points = 6
    /\ ~Suggested("images_alt")

\* C4 witness: a document without images analysed, with other suggestions
C4_Witness == Returned /\ html.imgs = <<>> /\ Len(prelim.suggestions) > 0

\* C5 as stated: a check result with ok = true carries no advice (null).
C5_AdviceOnlyOnFailure ==
  Returned => \A k \in DOMAIN prelim.checks : Check(k).ok => Check(k).advice = Null

\* C5 amended: every check result carries its advice string whether the check
\* passed or failed (null only for images_alt on a document without images);
\* the advice is listed among the suggestions only when the check failed: a
\* check with ok = true has no entry in suggestions.
C5_AdviceSuggestedOnlyOnFailure ==
  Returned =>
    \A k \in DOMAIN prelim.checks :
      /\ Check(k).ok => ~Suggested(k)
      /\ Check(k).advice = Null <=> (k = "images_alt" /\ html.imgs = <<>>)

\* C5 witness: a report with a passed check that carries an advice string and
\* a failed check that is suggested
C5_Witness ==
  /\ Returned
  /\ \E k \in DOMAIN prelim.checks : Check(k).ok /\ Check(k).advice # Null
  /\ \E k \in DOMAIN prelim.checks : ~Check(k).ok /\ Suggested(k)

\* C6: analyzeHtml never raises, whatever JSON value a JSON-LD block parses to.
C6_NeverRaises == pc # "raised"

\* the JSON-LD blocks of the document that are not blank
NonBlankBlocks(d) == SelectSeq(d.scripts, LAMBDA el : el.raw # "blank")

InvalidBlocks(d) == SelectSeq(d.scripts, LAMBDA el : el.raw = "invalid")

WithoutInvalidBlocks(d) ==
  [d EXCEPT !.scripts = SelectSeq(d.scripts, LAMBDA el : el.raw # "invalid")]

\* C7: a JSON-LD block that is not valid JSON never aborts analyzeHtml (a
\* run that raises holds a block that did parse, and raises without the
\* invalid blocks too); it counts as a block for json_ld, which passes when
\* it is the only block, and it is not inspected for local_schema, which
\* passes or fails as it does without the invalid blocks and so fails when
\* no block parsed.
C7_InvalidBlockIsSentinel ==
  /\ pc = "raised" =>
       /\ \E i \in 1..Len(html.scripts) : html.scripts[i].raw = "json"
       /\ analyzeHtmlThrows(WithoutInvalidBlocks(html))
  /\ Returned =>
       /\ Check("json_ld").detail.count = Len(NonBlankBlocks(html))
       /\ Len(InvalidBlocks(html)) > 0 =>
            Check("json_ld").ok /\ Check("json_ld").points = 12
       /\ Check("local_schema").ok =>
            \E i \in 1..Len(html.scripts) : html.scripts[i].raw = "json"
       /\ ~analyzeHtmlThrows(WithoutInvalidBlocks(html))
       /\ Check("local_schema").ok
            = analyzeHtml(WithoutInvalidBlocks(html)).checks["local_schema"].ok

\* C7 witness: a document whose only JSON-LD block is invalid has been
\* analysed: json_ld passed on a count of 1 and local_schema failed
C7_Witness ==
  /\ Returned
  /\ html.scripts = <<InvalidScript>>
  /\ Check("json_ld").ok
  /\ Check("json_ld").detail.count = 1
  /\ ~Check("local_schema").ok

\* C8: suggestions holds exactly the failed checks that have an advice, one
\* entry each, in descending priority (high, medium, low), and checks of
\* equal priority in the order in which they were executed.
C8_SuggestionsByPriorityStable ==
  Returned =>
    LET sg == prelim.suggestions
        rank == [high |-> 3, medium |-> 2, low |-> 1]
    IN /\ \A i \in 1..Len(sg) :
            /\ sg[i].key \in DOMAIN prelim.checks
            /\ ~Check(sg[i].key).ok
            /\ sg[i].advice # Null
            /\ sg[i].advice = Check(sg[i].key).advice
            /\ sg[i].priority = Check(sg[i].key).priority
       /\ \A k \in DOMAIN prelim.checks :
            (~Check(k).ok /\ Check(k).advice # Null) => Suggested(k)
       /\ \A i, j \in 1..Len(sg) : i < j =>
            /\ sg[i].key # sg[j].key
            /\ rank[sg[i].priority] >= rank[sg[j].priority]
            /\ rank[sg[i].priority] = rank[sg[j].priority] =>
                 OrderOf(sg[i].key) < OrderOf(sg[j].key)

\* C8 witness: a report in which checks of all three priorities failed, two
\* of them of equal priority, and a low one was executed before a high one
C8_Witness ==
  /\ Returned
  /\ ~Check("lang").ok /\ ~Check("viewport").ok
  /\ ~Check("title").ok /\ ~Check("canonical").ok
  /\ ~Check("h1").ok /\ ~Check("geo").ok
  /\ Len(prelim.suggestions) >= 6

\* the length of the trimmed content of the description meta ('' if absent)
DescriptionLength(d) ==
  Len(Trim(AttrOrEmpty(FirstAttr(MetaNamed(d, sDescription), "content"))))

\* C9: description passes iff the trimmed meta description has at least 20
\* characters; passing with 50 to 160 characters awards 10, passing outside
\* that range awards 5, failing awards 0.
C9_DescriptionBand ==
  Returned =>
    LET n == DescriptionLength(html)
    IN /\ Check("description").ok <=> n >= 20
       /\ Check("description").points =
            IF n < 20 THEN 0 ELSE IF n >= 50 /\ n <= 160 THEN 10 ELSE 5

\* C9 witness: descriptions at the edges of the band have been scored
C9_Witness ==
  /\ Returned
  /\ DescriptionLength(html) = 160
  /\ Len(AttrOrEmpty(FirstAttr(MetaNamed(html, sDescription), "content"))) > 160
  /\ Check("description").points = 10

\* C10: h1 passes for any h1 count >= 1; it awards 6 when the count is
\* exactly 1, 3 when it is greater than 1 and 0 when there is no h1.
C10_H1Credit ==
  Returned =>
    /\ Check("h1").ok <=> html.h1Count >= 1
    /\ Check("h1").points =
         IF html.h1Count = 1 THEN 6 ELSE IF html.h1Count > 1 THEN 3 ELSE 0

\* C10 witness: a document with several h1 elements has been scored
C10_Witness == Returned /\ html.h1Count > 1 /\ Check("h1").ok

\* the nodes of a parsed JSON-LD value: a top-level object, or the elements
\* of a top-level array
NodesOf(v) ==
  IF v.kind = "array" THEN {v.items[i] : i \in 1..Len(v.items)}
  ELSE IF v.kind = "object" THEN {v}
  ELSE {}

\* the node has the property with a non-empty (truthy) value
HasValue(n, key) ==
  /\ n.kind = "object"
  /\ key \in DOMAIN n.props
  /\ JsTruthy(n.props[key])

\* the type of a node: its @type, or its type when it has no @type value
TypeOf(n) ==
  IF HasValue(n, "@type") THEN n.props["@type"]
  ELSE IF HasValue(n, "type") THEN n.props["type"]
  ELSE JUndefined

Scored == geo # Undefined

\* C12: for every rubric report and hints object, the GEO_SCORE that
\* calculateGeoScore returns is an integer in the range 0..100.
C12_GeoScoreInRange == Scored => geo.GEO_SCORE \in 0..100

\* a document that earns every sub-score: the score is 100
C12_Witness == Scored /\ geo.GEO_SCORE = 100

\* ------------------------------------------------------------------ C13
HasLocalityCandidate ==
  \E i \in 1..Len(hints.topEntities) :
    \E w \in LocalityWords : Includes(ToLowerCase(hints.topEntities[i]), w)

PresentSignals ==
  (IF hints.foundFiles.llmsTxt THEN 1 ELSE 0)
  + (IF hints.hreflangCount > 0 THEN 1 ELSE 0)
  + (IF Check("json_ld").ok THEN 1 ELSE 0)

AdditiveReference ==
  (IF Check("local_schema").ok THEN 30 ELSE IF Check("json_ld").ok THEN 15 ELSE 0)
  + (IF Check("local_schema").ok THEN 15 ELSE IF HasLocalityCandidate THEN 6 ELSE 0)
  + (IF PhoneMatches(html.bodyText) # <<>> THEN 15 ELSE 0)
  + (IF CoordMatches(html.bodyText) # <<>> THEN 10 ELSE 0)
  + (IF \E i \in 1..Len(html.metas) : IsGeoName(MetaName(html.metas[i])) THEN 5 ELSE 0)
  + (IF hints.hreflangCount > 0 THEN 10 ELSE 0)
  + (IF Len(hints.topEntities) >= 3 THEN 10
     ELSE IF Len(hints.topEntities) >= 1 THEN 4 ELSE 0)
  + (IF PresentSignals >= 2 THEN 5 ELSE IF PresentSignals = 1 THEN 2 ELSE 0)

\* C13: the GEO_SCORE equals the additive reference (schema 30/15/0, address
\* 15/6/0, phone 15, coordinates 10, geo meta 5, hreflang 10, entity density
\* 10/4/0, combined-signal bonus 5/2/0), clamped to 0..100.
C13_GeoScoreIsAdditive ==
  Scored =>
    geo.GEO_SCORE = (IF AdditiveReference > 100 THEN 100
                     ELSE IF AdditiveReference < 0 THEN 0 ELSE AdditiveReference)

\* no local schema but a JSON-LD block, a locality keyword among the entity
\* candidates, and exactly one of the three combined signals
C13_Witness ==
  /\ Scored
  /\ ~Check("local_schema").ok
  /\ geo.breakdown.schemaScore = 15
  /\ geo.breakdown.addressScore = 6
  /\ geo.breakdown.localSignalsScore = 2
  /\ geo.breakdown.phoneScore = 15

\* ------------------------------------------------------------------ C14
\* the document that the empty string parses to
IsEmptyDoc == html = DocOf(EmptyParts)

\* C14: for the empty string analyzeHtml returns a complete report of all 12
\* checks in which robots and images_alt are the only passing checks and
\* every other check fails with zero points.
C14_EmptyInputReport ==
  (Returned /\ IsEmptyDoc) =>
    /\ DOMAIN prelim.checks = {CheckOrder[i] : i \in 1..Len(CheckOrder)}
    /\ Cardinality(DOMAIN prelim.checks) = 12
    /\ \A k \in DOMAIN prelim.checks :
         /\ Check(k).ok <=> k \in {"robots", "images_alt"}
         /\ ~Check(k).ok => Check(k).points = 0
         /\ Check(k).ok => Check(k).points = WEIGHTS[k]

C14_Witness == Returned /\ IsEmptyDoc /\ Check("robots").ok /\ ~Check("lang").ok

\* ------------------------------------------------------------------ C15
\* the body text of the document contains no words
NoWords(d) == Tokens(NormalizedBody(d), Spaces) = <<>>

IsFinite(n) == n.kind = "number"

\* C15: for a document whose body text contains no words, both readability
\* computations (computeHintsFromHtml and advancedAnalysis) divide by a word
\* count floored at 1, so the Flesch value of each is a finite number.
C15_FleschFiniteWithoutWords ==
  (hints # Undefined /\ NoWords(html)) =>
    /\ IsFinite(hints.readability.flesch)
    /\ IsFinite(advanced.contentQualityForAI.flesch)

\* ------------------------------------------------------------------ C16
\* the indices at which a match occurs for the first time
FirstSeen(ms) == {i \in 1..Len(ms) : \A j \in 1..(i - 1) : ms[j] # ms[i]}

\* the first n distinct elements of ms, in first-seen order
FirstDistinct(ms, n) ==
  LET seen == FirstSeen(ms)
      len == IF Cardinality(seen) < n THEN Cardinality(seen) ELSE n
      at(k) == CHOOSE i \in seen : Cardinality({j \in seen : j <= i}) = k
  IN [k \in 1..len |-> ms[at(k)]]

\* C16: the entity candidates are the first N distinct capitalized-word-sequence
\* matches of the body text, in first-seen order and without duplicates, with
\* N = 5 in computeHintsFromHtml and N = 10 in advancedAnalysis; for the text
\* "Paris is beautiful. New York is busy." they are ["Paris", "New York"].
C16_FirstDistinctMatches ==
  hints # Undefined =>
    LET ms == CapMatches(NormalizedBody(html))
    IN /\ hints.topEntities = FirstDistinct(ms, 5)
       /\ advanced.entityRecognition.topEntities = FirstDistinct(ms, 10)
       /\ html.bodyText = tParisNewYork =>
            hints.topEntities = <<SubSeq(tParisNewYork, 1, 5), SubSeq(tParisNewYork, 21, 28)>>

\* ------------------------------------------------------------------ C17
Exited == mpc = "exited"

\* the run was started without a target address
NoTargetSupplied == mpc # "off" /\ ~Truthy(argv)

\* the fetch collaborator was called and raised
CrawlRaised == crawlCalls > 0 /\ crawlResponse = Undefined

\* the fetch collaborator returned and no result yields extractable HTML
NoExtractableHtml ==
  /\ crawlResponse # Undefined
  /\ \A i \in 1..Len(ResultsOf(crawlResponse)) :
       ~Truthy(extractHtmlFromResponse(ResultsOf(crawlResponse)[i]))

\* the fetch raises with exit status 2, and only then
FetchErrorIsStatus2 ==
  /\ CrawlRaised => Exited /\ exitCode = 2
  /\ (Exited /\ exitCode = 2) => CrawlRaised

\* no extractable HTML ends, once the raw response is saved, with exit status
\* 3, and only then
NoContentIsStatus3 ==
  /\ (NoExtractableHtml /\ mpc # "collect" /\ files.debug # "failed") =>
       Exited /\ exitCode = 3
  /\ (Exited /\ exitCode = 3) => NoExtractableHtml

\* C17: each fatal condition ends the process with a non-zero exit status of
\* its own: no target address supplied with status 1, the fetch collaborator
\* raising with status 2, no extractable HTML in any crawl result with status 3.
C17_ExitStatusPerCause ==
  /\ (NoTargetSupplied /\ mpc # "startup") => Exited /\ exitCode = 1
  /\ FetchErrorIsStatus2
  /\ NoContentIsStatus3

\* ------------------------------------------------------------------ C18
\* C18: the two report writes are guarded independently: when the JSON write
\* fails the HTML write is still attempted, and when the HTML write fails the
\* JSON report has been written.
C18_WritesIndependent ==
  Exited =>
    /\ files.json = "failed" => files.html # "unattempted"
    /\ files.html = "failed" => files.json = "written"

\* ------------------------------------------------------------------ C19
\* the enrichment call failed, or the credential is missing and the
\* enrichment phase is over
EnrichmentUnavailable ==
  \/ enrichment = "threw"
  \/ enrichment = "skipped" /\ OPENAI_API_KEY = <<>>

\* one entry of count 1 for every suggestion of the rubric, in their order
RubricOnlyIssues ==
  [i \in 1..Len(prelim.suggestions) |-> [issue |-> prelim.suggestions[i].key, count |-> 1]]

MissingKeyWarnings ==
  Cardinality({i \in 1..Len(logs) : logs[i] = "warn: OPENAI_API_KEY not set"})

\* without credential the enrichment is never called and never fails the run
NoKeyNoCall ==
  OPENAI_API_KEY = <<>> =>
    /\ aiCalls = 0
    /\ enrichment \in {"pending", "skipped"}
    /\ ai.kind = "undefined"

\* C20: when OPENAI_API_KEY is absent the run does not fail, the enrichment
\* collaborator is never called, and the warning about the missing credential
\* is logged exactly once during the run.
C20_MissingKeyWarnedOnce ==
  /\ NoKeyNoCall
  /\ (mpc # "off" /\ OPENAI_API_KEY = <<>> /\ Exited /\ exitCode = 0) =>
       MissingKeyWarnings = 1

\* ------------------------------------------------------------------ C21
\* the fetch phase failed: the collaborator raised, or the loop over the
\* results is over and no result yielded extractable HTML
FetchFailed == CrawlRaised \/ (NoExtractableHtml /\ mpc # "collect")

\* analyzeHtml, advancedAnalysis, computeHintsFromHtml and calculateGeoScore
\* were never entered
NoAnalysisRun ==
  /\ pc = "idle"
  /\ html = Undefined
  /\ prelim = Undefined
  /\ advanced = Undefined
  /\ hints = Undefined
  /\ geo = Undefined

\* C21: a fetch failure aborts the whole run: when the fetch collaborator
\* raises, or no crawl result yields extractable HTML, the process ends without
\* running the rubric or the heuristic analysis, without calling the enrichment
\* collaborator and without writing the aggregate JSON or HTML report; a failed
\* enrichment call ends only the enrichment phase: the analysis results stand
\* and the run goes on to write the reports.
C21_FetchFailureAbortsRun ==
  /\ FetchFailed =>
       /\ Exited
       /\ exitCode # 0
       /\ NoAnalysisRun
       /\ aiCalls = 0
       /\ enrichment = "pending"
       /\ topIssues = <<>>
       /\ files.json = "unattempted"
       /\ files.html = "unattempted"
  /\ enrichment = "threw" =>
       /\ prelim # Undefined /\ advanced # Undefined
       /\ hints # Undefined /\ geo # Undefined
       /\ mpc \in {"save", "render", "exited"}
       /\ Exited => files.json # "unattempted"
       /\ (Exited /\ files.json = "written") => files.html # "unattempted"

\* a crawl whose two results carry no HTML ended the run at the debug file
C21_Witness ==
  /\ Exited
  /\ NoExtractableHtml
  /\ Len(crawlResponse.results) = 2
  /\ exitCode = 3
  /\ files = [NoFiles EXCEPT !.debug = "written"]

\* ------------------------------------------------------------------ C22
\* what extractHtmlFromResponse finds in each crawl result
Candidates ==
  [i \in 1..Len(ResultsOf(crawlResponse)) |->
     extractHtmlFromResponse(ResultsOf(crawlResponse)[i])]

\* the indexes of the crawl results that yield extractable HTML
Extractable == {i \in DOMAIN Candidates : Truthy(Candidates[i])}

\* the members of a set of indexes, in increasing order
InOrder(kept) ==
  [k \in 1..Cardinality(kept) |->
     CHOOSE i \in kept : Cardinality({j \in kept : j < i}) = k - 1]

\* the address a result goes by: its own, or the target with its index
ResultUrl(i) ==
  LET r == ResultsOf(crawlResponse)[i]
  IN IF r.url.has /\ r.url.val # <<>> THEN r.url.val
     ELSE TARGET_URL \o sResultHash \o DigitText(i - 1)

\* the loop over the results is over and pages were found
PagesCollected == mpc \notin {"off", "startup", "crawl", "collect"} /\ htmlPieces # <<>>

\* C22: the combined document holds the HTML of every crawl result that yields
\* extractable HTML exactly once, each after a page marker naming its address,
\* in the order of the crawl result list; results without HTML are skipped,
\* pagesFound is the number of pages included, and the rubric runs once on the
\* combined document, not once per page.
C22_CombinedDocument ==
  /\ PagesCollected =>
       LET cand == Candidates
           order == InOrder({i \in DOMAIN cand : Truthy(cand[i])})
           n == Len(order)
           \* the k-th included page: the marker with its address, then its HTML
           section == [k \in 1..n |->
                         sPageOpen \o ResultUrl(order[k]) \o sPageClose \o cand[order[k]].val]
           \* the pages before the k-th, each followed by one line break
           start == [k \in 1..(n + 1) |->
                       k + Len(Join([j \in 1..(k - 1) |-> section[j]], <<>>))]
           combined == combinedHtml
       IN /\ pagesFound = n
          /\ CountFrom(combined, sPageOpen, 1) = n
          /\ \A k \in 1..n : HasAt(combined, section[k], start[k])
          /\ Len(combined) = start[n + 1] - 2
          /\ analyzeCalls <= 1
          /\ pc \in {"done", "raised"} => analyzeCalls = 1
  /\ ~PagesCollected => analyzeCalls = 0

\* three results, the second without HTML: two pages were combined and the
\* rubric has run on them
C22_Witness ==
  /\ PagesCollected
  /\ crawlResponse.results = SkippingResults
  /\ Extractable = {1, 3}
  /\ pagesFound = 2
  /\ htmlPieces[1] = [url |-> tUrl, html |-> tPageA]
  /\ htmlPieces[2].url = TARGET_URL \o sResultHash \o <<"2">>
  /\ prelim # Undefined
  /\ analyzeCalls = 1

\* ------------------------------------------------------------------ C23
\* the issue keys of the rubric suggestions, then those of the enrichment
\* suggestions when the enrichment returned a list of them
IssueKeys ==
  [i \in 1..Len(prelim.suggestions) |->
     LET s == prelim.suggestions[i]
     IN IF s.key # "" THEN s.key ELSE IF AdviceGiven(s.advice) THEN s.advice ELSE "issue"]
  \o (IF ai.kind = "payload"
      THEN [i \in 1..Len(ai.ai_suggestions) |->
              LET s == ai.ai_suggestions[i]
              IN IF s.key # "" THEN s.key ELSE IF s.title # "" THEN s.title ELSE "{}"]
      ELSE <<>>)

Occurrences(keys, key) == Cardinality({i \in 1..Len(keys) : keys[i] = key})

\* the enrichment phase is over: outObj.topIssues has been assigned
TopIssuesComputed == enrichment # "pending"

\* C23: topIssues has one entry for each distinct issue key of the rubric
\* suggestions and, when present, of the enrichment suggestions; the count of an
\* entry is the number of occurrences of its key in the two lists together, and
\* the entries are in order of non-increasing count.
C23_TopIssuesCounted ==
  TopIssuesComputed =>
    LET keys == IssueKeys
    IN /\ \A i \in 1..Len(keys) :
            Cardinality({j \in 1..Len(topIssues) : topIssues[j].issue = keys[i]}) = 1
       /\ \A j \in 1..Len(topIssues) :
            /\ \E i \in 1..Len(keys) : keys[i] = topIssues[j].issue
            /\ topIssues[j].count = Occurrences(keys, topIssues[j].issue)
       /\ \A j \in 1..(Len(topIssues) - 1) : topIssues[j].count >= topIssues[j + 1].count

\* a key of both lists is counted twice and a key given three times by the
\* enrichment leads the list
C23_Witness ==
  /\ TopIssuesComputed
  /\ ai.kind = "payload"
  /\ Len(topIssues) >= 4
  /\ topIssues[1] = [issue |-> "speed", count |-> 3]
  /\ topIssues[2] = [issue |-> "h1", count |-> 2]
  /\ \E j \in 1..Len(topIssues) : topIssues[j] = [issue |-> "{}", count |-> 1]

\* ------------------------------------------------------------------ C24
\* the run is past the call of the fetch collaborator
PastCrawl == mpc \notin {"off", "startup", "crawl"}

\* no report file has been written or attempted
NoReportYet == files.json = "unattempted" /\ files.html = "unattempted"

\* the four analysis results are there
AnalysisComplete ==
  prelim # Undefined /\ advanced # Undefined /\ hints # Undefined /\ geo # Undefined

\* the calls so far: the fetch once and no more, the enrichment at most once
\* and only on complete analysis results, the report files only after the
\* enrichment phase
CallsInOrder ==
  /\ crawlCalls = (IF PastCrawl THEN 1 ELSE 0)
  /\ aiCalls <= 1
  /\ aiCalls = 1 => AnalysisComplete /\ enrichment \in {"returned", "threw"}
  /\ ~NoReportYet => enrichment # "pending" /\ AnalysisComplete

\* a step that calls the enrichment collaborator starts from complete analysis
\* results and no report file, and a step that calls either collaborator is
\* the first to do so
CallStep ==
  /\ aiCalls' # aiCalls =>
       AnalysisComplete /\ NoReportYet /\ aiCalls = 0 /\ enrichment = "pending"
  /\ crawlCalls' # crawlCalls => crawlCalls = 0 /\ crawlResponse = Undefined

\* C24: within one run the fetch collaborator is invoked exactly once and the
\* enrichment collaborator at most once, neither is called again after a
\* failure, and the enrichment call happens only after the rubric and the
\* heuristic analysis have completed and before any report file is written.
C24_CollaboratorsOnce == []CallsInOrder /\ [][CallStep]_vars

\* the enrichment call failed once, was not made again, and the reports were
\* written after it
C24_Witness ==
  /\ Exited
  /\ crawlCalls = 1
  /\ aiCalls = 1
  /\ enrichment = "threw"
  /\ files.json = "written" /\ files.html = "written"

\* ------------------------------------------------------------------ C25
\* the phone-like matches in the detail of the geo check
ReportedPhones == Check("geo").detail.phones

DigitCount(s) == Cardinality({i \in 1..Len(s) : IsDigit(s[i])})

\* digits, with hyphens and white space between them and at most a leading
\* plus sign
DigitsAndSeparators(s) ==
  /\ \A i \in 2..Len(s) : IsDigit(s[i]) \/ s[i] = "-" \/ IsSpace(s[i])
  /\ Len(s) > 0 => IsDigit(s[1]) \/ s[1] = "+"
  /\ Len(s) > 0 => IsDigit(s[Len(s)])

\* C25: every phone-like match that analyzeHtml extracts from the body text
\* has at least 7 digits, with hyphens and white space only as separators
\* between them.
C25_PhoneMatchesSevenDigits ==
  Returned =>
    \A i \in 1..Len(ReportedPhones) :
      /\ DigitCount(ReportedPhones[i]) >= 7
      /\ DigitsAndSeparators(ReportedPhones[i])

\* ------------------------------------------------------------------ C26
\* wordsArr: the tokens of the body text that the readability formula counts
\* as words
WordsCounted == Tokens(NormalizedBody(html), Spaces)

\* C26: the syllable heuristic gives at least one syllable to every
\* whitespace-delimited word of the body text: countSyllables(w) >= 1 for
\* every token w that the readability formula counts as a word.
C26_SyllableFloorPerWord ==
  hints # Undefined =>
    \A i \in 1..Len(WordsCounted) : countSyllables(WordsCounted[i]) >= 1

\* ------------------------------------------------------------------ C27
\* C27: in every report that analyzeHtml returns, a passing local_schema check
\* implies a passing json_ld check with a block count of at least 1; hence
\* calculateGeoScore gives schemaScore = 30 only to reports whose JSON-LD count
\* is positive.
C27_LocalSchemaImpliesJsonLd ==
  /\ Returned =>
       (Check("local_schema").ok =>
          Check("json_ld").ok /\ Check("json_ld").detail.count >= 1)
  /\ Scored =>
       (geo.breakdown.schemaScore = 30 => Check("json_ld").detail.count > 0)

\* a document with a block of a local type among its two blocks was scored 30
\* for its schema
C27_Witness ==
  /\ Scored
  /\ Check("local_schema").ok
  /\ Check("json_ld").detail.count = 2
  /\ geo.breakdown.schemaScore = 30

\* ------------------------------------------------------------------ C28
\* the points of crawlScore that are not the robots points
OtherCrawlPoints ==
  LET c == advanced.crawlability
  IN (IF Truthy(html.canonical) THEN 20 ELSE 0)
     + (IF c.sitemapInHtml THEN 20 ELSE 0)
     + (IF c.internalDensity < 30 THEN c.internalDensity ELSE 30)
     + (IF c.main # 0 THEN 15 ELSE 0)

\* the 15 robots points are part of crawlScore
RobotsPointsAdded == advanced.crawlability.crawlScore - OtherCrawlPoints = 15

\* C28: the rubric and the crawlability metric agree on the robots directive:
\* whatever the content of the robots meta element, advancedAnalysis adds the
\* 15 robots points to crawlScore exactly when the robots check of analyzeHtml
\* passes for the same document, "noindex" counting in any letter case.
C28_RobotsAgreement ==
  advanced # Undefined =>
    /\ RobotsPointsAdded <=> Check("robots").ok
    /\ advanced.crawlability.crawlScore - OtherCrawlPoints \in {0, 15}

====
